---------------------------- MODULE Spec2Model ----------------------------
(***************************************************************************)
(* A model of the XMP property-graph codec of seehuhn.de/go/xmp:           *)
(* the name validators, the packet decoder (Read, parsePropertyElement,    *)
(* getProperyElementType, getChildren), the packet encoder (Write,         *)
(* newEncoder, makeName, appendProperty) and the prefix allocator          *)
(* (getPrefix).                                                            *)
(*                                                                         *)
(* Go strings are modelled as sequences of one-character strings, so that  *)
(* the byte-level operations of the code (TrimRight, LastIndex, Contains,  *)
(* EqualFold, <) are computed and not assumed.                             *)
(***************************************************************************)
EXTENDS Integers, Sequences, FiniteSets, TLC

VARIABLES
    \* ---- name validators applied to one candidate name ----
    nm,                 \* the xml.Name under test, or NoName
    vp,                 \* isValidPropertyName(nm): "accept", "reject", or "unset"
    vq,                 \* isValidQualifierName(nm): "accept", "reject", or "unset"
    \* ---- Read: the token loop of decode.go ----
    doc,                \* the token stream delivered by xml.Decoder
    pos,                \* number of tokens consumed so far
    level,              \* Read's local `level`
    descriptionLevel,   \* Read's local `descriptionLevel`
    propertyLevel,      \* Read's local `propertyLevel`
    propertyElement,    \* Read's local `propertyElement`
    p,                  \* the Packet under construction: [About, Properties]
    err,                \* TRUE once Read has returned an error
    \* ---- Write: newEncoder and the token emission ----
    run,                \* which of the two Write calls on p is running (1 or 2)
    nsTodo,             \* keys of nsUsed the second loop of newEncoder has not visited
    nsToPrefix,         \* encoder.nsToPrefix
    prefixToNS,         \* encoder.prefixToNS
    out,                \* tokens passed to EncodeToken by the current Write
    out1,               \* tokens passed to EncodeToken by the first Write
    fatal,              \* TRUE once makeName has panicked
    \* ---- reading the output back ----
    p2,                 \* the Packet read back from the first output
    err2,               \* TRUE if reading back returned an error
    pc,                 \* position of the program
    \* ---- jvxml.Encoder driven by a sequence of calls ----
    enc,                \* the printer of the Encoder: tags, closed, err, and its bufio.Writer
    hist,               \* the calls made so far, each with what it returned
    \* ---- concurrent callers of Read and Write ----
    calls,              \* per caller: the call it makes and the locals of that call
    table,              \* the package-level variable defaultPrefix
    \* ---- parsePropertyElement and getPrefix called on their own ----
    elem,               \* the argument of parsePropertyElement: the tokens of one element
    eltType,            \* what getProperyElementType returned for elem, or -1
    eltValue,           \* what parsePropertyElement returned for elem, or NotCalled
    gp                  \* getPrefix's arguments and locals: nsToPrefix, ns, prefix, idx

vars == <<nm, vp, vq, doc, pos, level, descriptionLevel, propertyLevel,
          propertyElement, p, err, run, nsTodo, nsToPrefix, prefixToNS,
          out, out1, fatal, p2, err2, pc, enc, hist, calls, table,
          elem, eltType, eltValue, gp>>

-----------------------------------------------------------------------------
(* Strings                                                                 *)

\* The characters used by the model, in increasing byte order.
Chars ==
    <<"#","%","-",".","/","0","1","2","3","4","5","6","7","8","9",":",
      "A","B","C","D","E","F","G","H","I","J","K","L","M","N","O","P","Q",
      "R","S","T","U","V","W","X","Y","Z","_",
      "a","b","c","d","e","f","g","h","i","j","k","l","m","n","o","p","q",
      "r","s","t","u","v","w","x","y","z">>

Ord(c) == CHOOSE i \in 1..Len(Chars) : Chars[i] = c

UpperChars == {"A","B","C","D","E","F","G","H","I","J","K","L","M","N","O","P",
               "Q","R","S","T","U","V","W","X","Y","Z"}
LowerChars == {"a","b","c","d","e","f","g","h","i","j","k","l","m","n","o","p",
               "q","r","s","t","u","v","w","x","y","z"}
DigitChars == {"0","1","2","3","4","5","6","7","8","9"}
HexChars == DigitChars \cup {"a","b","c","d","e","f","A","B","C","D","E","F"}

\* strings.ToLower on one byte (unicode.ToLower restricted to ASCII).
ToLowerChar(c) ==
    IF c \in UpperChars THEN Chars[Ord(c) + 27] ELSE c

ToLower(s) == [i \in 1..Len(s) |-> ToLowerChar(s[i])]

\* Go's s < t on strings: lexicographic by byte.
StrLess(s, t) ==
    \E k \in 1..(Len(t)) :
        /\ \A i \in 1..(k-1) : i <= Len(s) /\ s[i] = t[i]
        /\ \/ k = Len(s) + 1
           \/ k <= Len(s) /\ Ord(s[k]) < Ord(t[k])

\* strings.Contains(s, c) for a one-byte needle.
Contains(s, c) == \E i \in 1..Len(s) : s[i] = c

\* strings.Index / strings.LastIndex for a one-byte needle; 0 when absent
\* (positions are 1-based here, Go's are 0-based with -1 for absent).
Index(s, c) ==
    IF Contains(s, c) THEN CHOOSE i \in 1..Len(s) : s[i] = c /\ \A j \in 1..(i-1) : s[j] # c
    ELSE 0
LastIndex(s, c) ==
    IF Contains(s, c) THEN CHOOSE i \in 1..Len(s) : s[i] = c /\ \A j \in (i+1)..Len(s) : s[j] # c
    ELSE 0

\* strings.TrimRight(s, cutset).
TrimRight(s, cutset) ==
    LET keep == {i \in 1..Len(s) : s[i] \notin cutset}
        n == IF keep = {} THEN 0 ELSE CHOOSE i \in keep : \A j \in keep : j <= i
    IN SubSeq(s, 1, n)

\* strings.HasPrefix.
HasPrefix(s, pre) == Len(s) >= Len(pre) /\ SubSeq(s, 1, Len(pre)) = pre

-----------------------------------------------------------------------------
(* Names                                                                   *)

xmlNamespace ==
    <<"h","t","t","p",":","/","/","w","w","w",".","w","3",".","o","r","g","/",
      "X","M","L","/","1","9","9","8","/","n","a","m","e","s","p","a","c","e">>
rdfNamespace ==
    <<"h","t","t","p",":","/","/","w","w","w",".","w","3",".","o","r","g","/",
      "1","9","9","9","/","0","2","/","2","2","-","r","d","f","-","s","y","n",
      "t","a","x","-","n","s","#">>
xmlnsSpace == <<"x","m","l","n","s">>

Name(space, local) == [Space |-> space, Local |-> local]

nameRDFAbout       == Name(rdfNamespace, <<"a","b","o","u","t">>)
nameRDFAlt         == Name(rdfNamespace, <<"A","l","t">>)
nameRDFBag         == Name(rdfNamespace, <<"B","a","g">>)
nameRDFDataType    == Name(rdfNamespace, <<"d","a","t","a","t","y","p","e">>)
nameRDFDescription == Name(rdfNamespace, <<"D","e","s","c","r","i","p","t","i","o","n">>)
nameRDFID          == Name(rdfNamespace, <<"I","D">>)
nameRDFLi          == Name(rdfNamespace, <<"l","i">>)
nameRDFNodeID      == Name(rdfNamespace, <<"n","o","d","e","I","D">>)
nameRDFParseType   == Name(rdfNamespace, <<"p","a","r","s","e","T","y","p","e">>)
nameRDFResource    == Name(rdfNamespace, <<"r","e","s","o","u","r","c","e">>)
nameRDFRoot        == Name(rdfNamespace, <<"R","D","F">>)
nameRDFSeq         == Name(rdfNamespace, <<"S","e","q">>)
nameRDFType        == Name(rdfNamespace, <<"t","y","p","e">>)
nameRDFValue       == Name(rdfNamespace, <<"v","a","l","u","e">>)
nameXMLLang        == Name(xmlNamespace, <<"l","a","n","g">>)

\* jvxml.IsName: the XML Name production restricted to the model's
\* characters: a letter, '_' or ':' first, then also digits, '-' and '.'.
IsName(s) ==
    /\ Len(s) > 0
    /\ s[1] \in UpperChars \cup LowerChars \cup {"_", ":"}
    /\ \A i \in 2..Len(s) :
          s[i] \in UpperChars \cup LowerChars \cup DigitChars \cup {"_", ":", "-", "."}

\* net/url getScheme: the length of the scheme (0 when there is none),
\* or -1 for the error "missing protocol scheme".
RECURSIVE getSchemeFrom(_, _)
getSchemeFrom(s, i) ==
    IF i > Len(s) THEN 0
    ELSE IF s[i] \in UpperChars \cup LowerChars THEN getSchemeFrom(s, i + 1)
    ELSE IF s[i] \in DigitChars \cup {"+", "-", "."}
         THEN (IF i = 1 THEN 0 ELSE getSchemeFrom(s, i + 1))
    ELSE IF s[i] = ":" THEN (IF i = 1 THEN -1 ELSE i - 1)
    ELSE 0

getScheme(s) == getSchemeFrom(s, 1)

\* net/url unescape: a '%' must be followed by two hex digits.
badEscape(s) ==
    \E i \in 1..Len(s) :
        /\ s[i] = "%"
        /\ ~(i + 2 <= Len(s) /\ s[i+1] \in HexChars /\ s[i+2] \in HexChars)

\* The part of s before the first '#', and the part after it.
beforeFrag(s) == IF Contains(s, "#") THEN SubSeq(s, 1, Index(s, "#") - 1) ELSE s
afterFrag(s)  == IF Contains(s, "#") THEN SubSeq(s, Index(s, "#") + 1, Len(s)) ELSE <<>>

\* url.Parse(s) returns an error.  Modelled: the missing-scheme error, the
\* colon in the first segment of a relative path, and invalid escapes in
\* the path or the fragment.
urlParseFails(s) ==
    LET u    == beforeFrag(s)
        n    == getScheme(u)
        rest == IF n > 0 THEN SubSeq(u, n + 2, Len(u)) ELSE u
        seg  == IF Contains(rest, "/") THEN SubSeq(rest, 1, Index(rest, "/") - 1) ELSE rest
    IN  \/ n = -1
        \/ n = 0 /\ ~HasPrefix(rest, <<"/">>) /\ Contains(seg, ":")
        \/ ~(n > 0 /\ ~HasPrefix(rest, <<"/">>)) /\ badEscape(rest)
        \/ badEscape(afterFrag(s))

\* url.Parse(s).String() for a string that parses: the scheme is lowercased
\* and an empty fragment is dropped.
urlString(s) ==
    LET u == beforeFrag(s)
        n == getScheme(u)
        f == afterFrag(s)
    IN  (IF n > 0 THEN ToLower(SubSeq(u, 1, n)) \o SubSeq(u, n + 1, Len(u)) ELSE u)
        \o (IF f = <<>> THEN <<>> ELSE <<"#">> \o f)

\* The validator without its test of the RDF namespace.
isValidPropertyName_noRDFCheck(n) ==
    /\ ~(n.Space = <<>> \/ n.Space = xmlNamespace \/ n.Space = xmlnsSpace)
    /\ ~(~IsName(n.Local) \/ Contains(n.Local, ":"))
    /\ ~urlParseFails(n.Space)

isValidPropertyName(n) ==
    /\ ~(n.Space = <<>> \/ n.Space = xmlNamespace \/ n.Space = xmlnsSpace)
    /\ ~(~IsName(n.Local) \/ Contains(n.Local, ":"))
    /\ ~(n.Space = rdfNamespace /\ n # nameRDFType)
    /\ ~urlParseFails(n.Space)

isValidQualifierName(n) ==
    /\ ~(n.Space = <<>> \/ n.Local = <<>>)
    /\ ~(n.Space = rdfNamespace /\ n # nameRDFType)
    /\ ~(n.Space = xmlNamespace /\ n # nameXMLLang)
    /\ ~urlParseFails(n.Space)

-----------------------------------------------------------------------------
(* Tokens and values                                                       *)

NoName == Name(<<>>, <<>>)

\* xml.Token: StartElement, EndElement, CharData, ProcInst, and the
\* jvxml.EmptyElement the encoder emits for self-closing elements.
StartElement(name, attr) == [k |-> "StartElement", name |-> name, attr |-> attr, v |-> <<>>]
EndElement(name)         == [k |-> "EndElement", name |-> name, attr |-> <<>>, v |-> <<>>]
CharData(v)              == [k |-> "CharData", name |-> NoName, attr |-> <<>>, v |-> v]
ProcInst(target, inst)   == [k |-> "ProcInst", name |-> Name(<<>>, target), attr |-> <<>>, v |-> inst]
EmptyElement(name, attr) == [k |-> "EmptyElement", name |-> name, attr |-> attr, v |-> <<>>]

Attr(name, value) == [Name |-> name, Value |-> value]

\* Raw values: Text, URL, RawStruct, RawArray; Nil is Go's nil Raw.
Nil == [t |-> "nil"]
Text(v, q) == [t |-> "Text", V |-> v, Q |-> q]
URL(v, q) == [t |-> "URL", V |-> v, Q |-> q]
RawStruct(value, q) == [t |-> "RawStruct", Value |-> value, Q |-> q]
RawArray(value, kind, q) == [t |-> "RawArray", Value |-> value, Kind |-> kind, Q |-> q]

Qualifier(name, value) == [Name |-> name, Value |-> value]

Unordered == 1
Ordered == 2
Alternative == 3

\* A nil *url.URL.
NilURL == <<"<nil>">>

\* An empty Go map, and the map m with m[k] = v stored.
EmptyMap == [n \in {} |-> Nil]
MapSet(m, k, v) == [n \in (DOMAIN m) \cup {k} |-> IF n = k THEN v ELSE m[n]]

\* propertyElementType
resourcePropertyElt            == 1
literalPropertyElt             == 2
parseTypeLiteralPropertyElt    == 3
parseTypeResourcePropertyElt   == 4
parseTypeCollectionPropertyElt == 5
parseTypeOtherPropertyElt      == 6
emptyPropertyElt               == 7

strResource   == <<"R","e","s","o","u","r","c","e">>
strLiteral    == <<"L","i","t","e","r","a","l">>
strCollection == <<"C","o","l","l","e","c","t","i","o","n">>

-----------------------------------------------------------------------------
(* The decoder: decode.go                                                  *)

\* The first attribute that is neither xml:lang nor rdf:ID decides.
RECURSIVE classifyAttrs(_, _)
\* The scan in which rdf:parseType decides only when its value is "Resource".
classifyAttrs_resourceOnly(attr, i) ==
    IF i > Len(attr) THEN 0
    ELSE LET a == attr[i] IN
         IF a.Name = nameXMLLang THEN classifyAttrs(attr, i + 1)
         ELSE IF a.Name = nameRDFID THEN classifyAttrs(attr, i + 1)
         ELSE IF a.Name = nameRDFDataType THEN literalPropertyElt
         ELSE IF a.Name = nameRDFParseType /\ a.Value = strResource
         THEN parseTypeResourcePropertyElt
         ELSE emptyPropertyElt

\* The scan in which rdf:ID is not skipped.
classifyAttrs_idDecides(attr, i) ==
    IF i > Len(attr) THEN 0
    ELSE LET a == attr[i] IN
         IF a.Name = nameXMLLang THEN classifyAttrs(attr, i + 1)
         ELSE IF a.Name = nameRDFDataType THEN literalPropertyElt
         ELSE IF a.Name = nameRDFParseType THEN
              (IF a.Value = strLiteral THEN parseTypeLiteralPropertyElt
               ELSE IF a.Value = strResource THEN parseTypeResourcePropertyElt
               ELSE IF a.Value = strCollection THEN parseTypeCollectionPropertyElt
               ELSE parseTypeOtherPropertyElt)
         ELSE emptyPropertyElt

classifyAttrs(attr, i) ==
    IF i > Len(attr) THEN 0
    ELSE LET a == attr[i] IN
         IF a.Name = nameXMLLang THEN classifyAttrs(attr, i + 1)
         ELSE IF a.Name = nameRDFID THEN classifyAttrs(attr, i + 1)
         ELSE IF a.Name = nameRDFDataType THEN literalPropertyElt
         ELSE IF a.Name = nameRDFParseType THEN
              (IF a.Value = strLiteral THEN parseTypeLiteralPropertyElt
               ELSE IF a.Value = strResource THEN parseTypeResourcePropertyElt
               ELSE IF a.Value = strCollection THEN parseTypeCollectionPropertyElt
               ELSE parseTypeOtherPropertyElt)
         ELSE emptyPropertyElt

\* The classification by the first token alone.
classifyContent_firstToken(tokens) ==
    IF tokens = <<>> THEN emptyPropertyElt
    ELSE IF tokens[1].k = "StartElement" THEN resourcePropertyElt
    ELSE IF tokens[1].k = "CharData" THEN literalPropertyElt
    ELSE emptyPropertyElt

\* The first StartElement among the tokens makes a resourcePropertyElt;
\* character data and no element, a literalPropertyElt.
classifyContent(tokens) ==
    LET starts == {i \in 1..Len(tokens) : tokens[i].k = "StartElement"}
        chars  == {i \in 1..Len(tokens) : tokens[i].k = "CharData"}
    IN  IF starts # {} THEN resourcePropertyElt
        ELSE IF chars # {} THEN literalPropertyElt
        ELSE emptyPropertyElt

getProperyElementType(start, tokens) ==
    IF Len(start.attr) > 3 THEN emptyPropertyElt
    ELSE LET byAttr == classifyAttrs(start.attr, 1)
         IN IF byAttr # 0 THEN byAttr ELSE classifyContent(tokens)

\* childElement{name, start, end}: the elements at nesting level 0 of the
\* token slice, with the (1-based) positions of their start and end tokens.
RECURSIVE getChildrenFrom(_, _, _, _)
getChildrenFrom(tokens, i, lvl, children) ==
    IF i > Len(tokens) THEN children
    ELSE LET t == tokens[i] IN
         IF t.k = "StartElement" THEN
            getChildrenFrom(tokens, i + 1, lvl + 1,
                IF lvl = 0
                THEN Append(children, [name |-> t.name, start |-> i, end |-> 0])
                ELSE children)
         ELSE IF t.k = "EndElement" THEN
            getChildrenFrom(tokens, i + 1, lvl - 1,
                IF lvl - 1 = 0
                THEN [children EXCEPT ![Len(children)].end = i]
                ELSE children)
         ELSE getChildrenFrom(tokens, i + 1, lvl, children)

getChildren(tokens) == getChildrenFrom(tokens, 1, 0, <<>>)

\* tokens[f.start+1 : f.end] of the code: the tokens enclosed by child f.
innerOf(tokens, f) == SubSeq(tokens, f.start + 1, f.end - 1)

\* for _, a := range attr { if isValidQualifierName(a.Name) { qq = append(...) } }
attrQualifiers(attr) ==
    LET sel == SelectSeq(attr, LAMBDA a : isValidQualifierName(a.Name))
    IN [i \in 1..Len(sel) |-> Qualifier(sel[i].Name, Text(sel[i].Value, <<>>))]

\* for _, a := range attr { if a.Name == nameXMLLang { qq = append(...) } }
langQualifiers(attr) ==
    LET sel == SelectSeq(attr, LAMBDA a : a.Name = nameXMLLang)
    IN [i \in 1..Len(sel) |-> Qualifier(sel[i].Name, Text(sel[i].Value, <<>>))]

\* for _, a := range attr { if isValidPropertyName(a.Name) { res.Value[a.Name] = Text{...} } }
RECURSIVE attrFieldsFrom(_, _, _)
\* The loop without the test of the name.
attrFieldsFrom_unchecked(attr, i, m) ==
    IF i > Len(attr) THEN m
    ELSE attrFieldsFrom(attr, i + 1, MapSet(m, attr[i].Name, Text(attr[i].Value, <<>>)))

attrFieldsFrom(attr, i, m) ==
    IF i > Len(attr) THEN m
    ELSE attrFieldsFrom(attr, i + 1,
            IF isValidPropertyName(attr[i].Name)
            THEN MapSet(m, attr[i].Name, Text(attr[i].Value, <<>>))
            ELSE m)

attrFields(attr) == attrFieldsFrom(attr, 1, EmptyMap)

\* The (1-based) index of the first element of s with the given name, or 0.
firstNamed(s, name) ==
    LET hit == {i \in 1..Len(s) : s[i].name = name}
    IN IF hit = {} THEN 0 ELSE CHOOSE i \in hit : \A j \in hit : i <= j

firstAttrNamed(attr, name) ==
    LET hit == {i \in 1..Len(attr) : attr[i].Name = name}
    IN IF hit = {} THEN 0 ELSE CHOOSE i \in hit : \A j \in hit : i <= j

\* The value of the last attribute with the given name ("" when absent).
lastAttrValue(attr, name) ==
    LET hit == {i \in 1..Len(attr) : attr[i].Name = name}
    IN IF hit = {} THEN <<>> ELSE attr[CHOOSE i \in hit : \A j \in hit : j <= i].Value

RECURSIVE parsePropertyElement(_, _, _)

\* for _, f := range fields { if isValidQualifierName(f.name) { val := parse...;
\*     if val != nil { qq = append(qq, Qualifier{f.name, val}) } } }
RECURSIVE fieldQualifiersFrom(_, _, _, _)
fieldQualifiersFrom(tokens, fields, i, qq) ==
    IF i > Len(fields) THEN qq
    ELSE LET f   == fields[i]
             val == parsePropertyElement(tokens[f.start], innerOf(tokens, f), <<>>)
         IN fieldQualifiersFrom(tokens, fields, i + 1,
                IF isValidQualifierName(f.name) /\ val # Nil
                THEN Append(qq, Qualifier(f.name, val))
                ELSE qq)

\* for _, f := range fields { if isValidPropertyName(f.name) { val := parse...;
\*     if val != nil { res.Value[f.name] = val } } }
RECURSIVE fieldValuesFrom(_, _, _, _)
fieldValuesFrom(tokens, fields, i, m) ==
    IF i > Len(fields) THEN m
    ELSE LET f   == fields[i]
             val == parsePropertyElement(tokens[f.start], innerOf(tokens, f), <<>>)
         IN fieldValuesFrom(tokens, fields, i + 1,
                IF isValidPropertyName(f.name) /\ val # Nil
                THEN MapSet(m, f.name, val)
                ELSE m)

\* for _, i := range items { val := parse...; if val != nil { res.Value = append(res.Value, val) } }
RECURSIVE itemValuesFrom(_, _, _, _)
itemValuesFrom(tokens, items, i, vals) ==
    IF i > Len(items) THEN vals
    ELSE LET f   == items[i]
             val == parsePropertyElement(tokens[f.start], innerOf(tokens, f), <<>>)
         IN itemValuesFrom(tokens, items, i + 1,
                IF val # Nil THEN Append(vals, val) ELSE vals)

\* if attrIdx >= 0 { return Text{...} }; f := fields[valueIdx]; return parsePropertyElement(...)
qualifiedValue(descStart, inner, fields, attrIdx, valueIdx, qq) ==
    IF attrIdx > 0
    THEN Text(descStart.attr[attrIdx].Value, qq)
    ELSE parsePropertyElement(inner[fields[valueIdx].start],
                              innerOf(inner, fields[valueIdx]), qq)

descriptionValue(descStart, inner, fields, attrIdx, valueIdx, qq) ==
    IF attrIdx > 0 \/ valueIdx > 0
    THEN qualifiedValue(descStart, inner, fields, attrIdx, valueIdx,
             fieldQualifiersFrom(inner, fields, 1, qq \o attrQualifiers(descStart.attr)))
    ELSE RawStruct(fieldValuesFrom(inner, fields, 1, attrFields(descStart.attr)), qq)

\* case child.name == nameRDFDescription
parseDescription(descStart, inner, qq) ==
    descriptionValue(descStart, inner, getChildren(inner),
                     firstAttrNamed(descStart.attr, nameRDFValue),
                     firstNamed(getChildren(inner), nameRDFValue), qq)

\* case child.name == nameRDFBag || nameRDFSeq || nameRDFAlt
parseArray(childName, inner, qq) ==
    LET tp == IF childName = nameRDFBag THEN Unordered
              ELSE IF childName = nameRDFSeq THEN Ordered
              ELSE Alternative
    IN RawArray(itemValuesFrom(inner, getChildren(inner), 1, <<>>), tp, qq)

\* default: a typed node
parseTypedNode(childName, inner, qq) ==
    LET typeURLString == childName.Space \o childName.Local
        qq1 == IF urlParseFails(typeURLString) THEN qq
               ELSE Append(qq, Qualifier(nameRDFType, URL(urlString(typeURLString), <<>>)))
        fields   == getChildren(inner)
        valueIdx == firstNamed(fields, nameRDFValue)
    IN  IF valueIdx > 0
        THEN LET qq2 == fieldQualifiersFrom(inner, fields, 1, qq1)
                 f   == fields[valueIdx]
             IN parsePropertyElement(inner[f.start], innerOf(inner, f), qq2)
        ELSE RawStruct(fieldValuesFrom(inner, fields, 1, EmptyMap), qq1)

\* case resourcePropertyElt
parseResourceProperty(start, tokens, qq) ==
    LET qq0      == qq \o langQualifiers(start.attr)
        children == getChildren(tokens)
    IN  IF Len(children) = 0 THEN Nil
        ELSE LET child == children[1]
                 inner == innerOf(tokens, child)
             IN IF child.name = nameRDFDescription
                THEN parseDescription(tokens[child.start], inner, qq0)
                ELSE IF child.name \in {nameRDFBag, nameRDFSeq, nameRDFAlt}
                THEN parseArray(child.name, inner, qq0)
                ELSE parseTypedNode(child.name, inner, qq0)

\* case parseTypeResourcePropertyElt
parseParseTypeResource(start, tokens, qq) ==
    LET qq0      == qq \o langQualifiers(start.attr)
        fields   == getChildren(tokens)
        valueIdx == firstNamed(fields, nameRDFValue)
    IN  IF valueIdx > 0
        THEN LET qq2 == fieldQualifiersFrom(tokens, fields, 1, qq0)
                 f   == fields[valueIdx]
             IN parsePropertyElement(tokens[f.start], innerOf(tokens, f), qq2)
        ELSE RawStruct(fieldValuesFrom(tokens, fields, 1, EmptyMap), qq0)

\* case literalPropertyElt: the text is the concatenation of the CharData.
RECURSIVE concatCharData(_, _)
concatCharData(tokens, i) ==
    IF i > Len(tokens) THEN <<>>
    ELSE (IF tokens[i].k = "CharData" THEN tokens[i].v ELSE <<>>)
         \o concatCharData(tokens, i + 1)

parseLiteralProperty(start, tokens, qq) ==
    Text(concatCharData(tokens, 1), qq \o attrQualifiers(start.attr))

\* The switch taken in another order: rdf:resource before rdf:value.
parseEmptyProperty_resourceFirst(start, qq) ==
    LET attr == start.attr
        isSimpleProperty == \E i \in 1..Len(attr) : attr[i].Name = nameRDFValue
        isURIProperty    == \E i \in 1..Len(attr) : attr[i].Name = nameRDFResource
        isEmptyValue     == \A i \in 1..Len(attr) :
                                attr[i].Name \in {nameXMLLang, nameRDFID, nameRDFNodeID}
    IN  IF isURIProperty
        THEN LET uriString == lastAttrValue(attr, nameRDFResource)
             IN IF urlParseFails(uriString) THEN Nil
                ELSE URL(urlString(uriString),
                         qq \o attrQualifiers(SelectSeq(attr, LAMBDA a : a.Name # nameRDFResource)))
        ELSE IF isSimpleProperty
        THEN Text(lastAttrValue(attr, nameRDFValue),
                  attrQualifiers(SelectSeq(attr, LAMBDA a : a.Name # nameRDFValue)))
        ELSE IF isEmptyValue
        THEN LET i == firstAttrNamed(attr, nameXMLLang)
             IN IF i > 0
                THEN Text(<<>>, <<Qualifier(nameXMLLang, Text(attr[i].Value, <<>>))>>)
                ELSE Text(<<>>, <<>>)
        ELSE RawStruct(attrFields(SelectSeq(attr, LAMBDA a : a.Name # nameXMLLang)),
                       qq \o langQualifiers(attr))

\* case emptyPropertyElt
parseEmptyProperty(start, qq) ==
    LET attr == start.attr
        isSimpleProperty == \E i \in 1..Len(attr) : attr[i].Name = nameRDFValue
        isURIProperty    == \E i \in 1..Len(attr) : attr[i].Name = nameRDFResource
        isEmptyValue     == \A i \in 1..Len(attr) :
                                attr[i].Name \in {nameXMLLang, nameRDFID, nameRDFNodeID}
    IN  IF isSimpleProperty
        THEN \* `var qq Q` shadows the parameter: the qualifiers passed in are not used
             Text(lastAttrValue(attr, nameRDFValue),
                  attrQualifiers(SelectSeq(attr, LAMBDA a : a.Name # nameRDFValue)))
        ELSE IF isURIProperty
        THEN LET uriString == lastAttrValue(attr, nameRDFResource)
             IN IF urlParseFails(uriString) THEN Nil
                ELSE URL(urlString(uriString),
                         qq \o attrQualifiers(SelectSeq(attr, LAMBDA a : a.Name # nameRDFResource)))
        ELSE IF isEmptyValue
        THEN LET i == firstAttrNamed(attr, nameXMLLang)
             IN IF i > 0
                THEN Text(<<>>, <<Qualifier(nameXMLLang, Text(attr[i].Value, <<>>))>>)
                ELSE Text(<<>>, <<>>)
        ELSE RawStruct(attrFields(SelectSeq(attr, LAMBDA a : a.Name # nameXMLLang)),
                       qq \o langQualifiers(attr))

parsePropertyElement(start, tokens, qq) ==
    LET tp == getProperyElementType(start, tokens)
    IN  IF tp = literalPropertyElt THEN parseLiteralProperty(start, tokens, qq)
        ELSE IF tp = resourcePropertyElt THEN parseResourceProperty(start, tokens, qq)
        ELSE IF tp = parseTypeResourcePropertyElt THEN parseParseTypeResource(start, tokens, qq)
        ELSE IF tp = emptyPropertyElt THEN parseEmptyProperty(start, qq)
        ELSE Nil

-----------------------------------------------------------------------------
(* Read: the token loop                                                    *)

\* &Packet{Properties: make(map[xml.Name]Raw)}; About is a nil *url.URL.
NewPacket == [About |-> NilURL, Properties |-> EmptyMap]

\* Read's locals before the first token.
ReadStart ==
    [level |-> 0, descriptionLevel |-> -1, propertyLevel |-> -1,
     propertyElement |-> <<>>, p |-> NewPacket, err |-> FALSE]

\* The value of aboutURL computed from the attribute value: nil for the
\* empty string, for a string url.Parse rejects, and for a URL whose String()
\* is empty.
aboutURLOf(value) ==
    IF value = <<>> THEN NilURL
    ELSE IF urlParseFails(value) THEN NilURL
    ELSE IF urlString(value) = <<>> THEN NilURL
    ELSE urlString(value)

\* The loop over the attributes of an rdf:Description subject element.
RECURSIVE descriptionAttrs(_, _, _)
\* The loop without the comparison of a later rdf:about with the first.
descriptionAttrs_firstAboutWins(attr, i, st) ==
    IF i > Len(attr) THEN st
    ELSE LET a == attr[i] IN
         IF a.Name = nameRDFAbout
         THEN descriptionAttrs(attr, i + 1,
                IF st.p.About = NilURL
                THEN [st EXCEPT !.p.About = aboutURLOf(a.Value)]
                ELSE st)
         ELSE descriptionAttrs(attr, i + 1,
                IF isValidPropertyName(a.Name)
                THEN [st EXCEPT !.p.Properties = MapSet(@, a.Name, Text(a.Value, <<>>))]
                ELSE st)

descriptionAttrs(attr, i, st) ==
    IF i > Len(attr) \/ st.err THEN st
    ELSE LET a == attr[i] IN
         IF a.Name = nameRDFAbout
         THEN LET aboutURL == aboutURLOf(a.Value) IN
              IF st.p.About = NilURL
              THEN descriptionAttrs(attr, i + 1, [st EXCEPT !.p.About = aboutURL])
              ELSE IF aboutURL # NilURL /\ aboutURL # st.p.About
              THEN [st EXCEPT !.err = TRUE]
              ELSE descriptionAttrs(attr, i + 1, st)
         ELSE descriptionAttrs(attr, i + 1,
                IF isValidPropertyName(a.Name)
                THEN [st EXCEPT !.p.Properties = MapSet(@, a.Name, Text(a.Value, <<>>))]
                ELSE st)

\* if propertyLevel >= 0 { propertyElement = append(propertyElement, t) }
recordToken(st, t) ==
    IF st.propertyLevel >= 0
    THEN [st EXCEPT !.propertyElement = Append(@, t)]
    ELSE st

\* case xml.StartElement, where the start tag of a property is not recorded.
readStartElement_startNotRecorded(st, t) ==
    IF ~(st.level > 0 \/ t.name = nameRDFRoot) THEN st
    ELSE LET s1 == [st EXCEPT !.level = @ + 1] IN
         IF s1.descriptionLevel < 0 /\ t.name = nameRDFDescription
         THEN LET s2 == descriptionAttrs(t.attr, 1, s1)
              IN IF s2.err THEN s2
                 ELSE recordToken([s2 EXCEPT !.descriptionLevel = s1.level], t)
         ELSE IF s1.descriptionLevel >= 0 /\ s1.propertyLevel < 0
         THEN [s1 EXCEPT !.propertyLevel = s1.level, !.propertyElement = <<>>]
         ELSE recordToken(s1, t)

\* case xml.StartElement, where elements outside rdf:RDF are counted too.
readStartElement_countsOutside(st, t) ==
    LET s1 == [st EXCEPT !.level = @ + 1] IN
    IF s1.descriptionLevel < 0 /\ t.name = nameRDFDescription
    THEN LET s2 == descriptionAttrs(t.attr, 1, s1)
         IN IF s2.err THEN s2
            ELSE recordToken([s2 EXCEPT !.descriptionLevel = s1.level], t)
    ELSE IF s1.descriptionLevel >= 0 /\ s1.propertyLevel < 0
    THEN recordToken([s1 EXCEPT !.propertyLevel = s1.level,
                                !.propertyElement = <<>>], t)
    ELSE recordToken(s1, t)

\* case xml.StartElement
readStartElement(st, t) ==
    IF ~(st.level > 0 \/ t.name = nameRDFRoot) THEN st
    ELSE LET s1 == [st EXCEPT !.level = @ + 1] IN
         IF s1.descriptionLevel < 0 /\ t.name = nameRDFDescription
         THEN LET s2 == descriptionAttrs(t.attr, 1, s1)
              IN IF s2.err THEN s2
                 ELSE recordToken([s2 EXCEPT !.descriptionLevel = s1.level], t)
         ELSE IF s1.descriptionLevel >= 0 /\ s1.propertyLevel < 0
         THEN recordToken([s1 EXCEPT !.propertyLevel = s1.level,
                                     !.propertyElement = <<>>], t)
         ELSE recordToken(s1, t)

\* The property stored without the test of its name.
storeProperty_unchecked(st) ==
    IF parsePropertyElement(st.propertyElement[1], Tail(st.propertyElement), <<>>) # Nil
    THEN [st EXCEPT !.p.Properties =
             MapSet(@, st.propertyElement[1].name,
                    parsePropertyElement(st.propertyElement[1], Tail(st.propertyElement), <<>>))]
    ELSE st

\* if isValidPropertyName(start.Name) { val := parsePropertyElement(...);
\*     if val != nil { p.Properties[start.Name] = val } }
storeProperty(st) ==
    LET start == st.propertyElement[1]
        val   == parsePropertyElement(start, Tail(st.propertyElement), <<>>)
    IN  IF isValidPropertyName(start.name) /\ val # Nil
        THEN [st EXCEPT !.p.Properties = MapSet(@, start.name, val)]
        ELSE st

\* if level == propertyLevel { ...; propertyLevel = -1 }
closeProperty(st) ==
    IF st.level = st.propertyLevel
    THEN [storeProperty(st) EXCEPT !.propertyLevel = -1]
    ELSE st

\* if level == descriptionLevel { descriptionLevel = -1 }
closeDescription(st) ==
    IF st.level = st.descriptionLevel THEN [st EXCEPT !.descriptionLevel = -1] ELSE st

\* if level > 0 { level-- }
decrementLevel(st) ==
    IF st.level > 0 THEN [st EXCEPT !.level = @ - 1] ELSE st

\* case xml.EndElement
readEndElement(st, t) ==
    recordToken(decrementLevel(closeDescription(closeProperty(st))), t)

\* One iteration of tokenLoop.
ReadStep(st, t) ==
    IF t.k = "StartElement" THEN readStartElement(st, t)
    ELSE IF t.k = "EndElement" THEN readEndElement(st, t)
    ELSE recordToken(st, t)

\* Read on a whole token stream: the result is (p, nil) or (nil, err).
RECURSIVE ReadFrom(_, _, _)
ReadFrom(tokens, i, st) ==
    IF i > Len(tokens) \/ st.err THEN st
    ELSE ReadFrom(tokens, i + 1, ReadStep(st, tokens[i]))

ReadAll(tokens) == ReadFrom(tokens, 1, ReadStart)

\* Read's locals, as held in the variables.
readState ==
    [level |-> level, descriptionLevel |-> descriptionLevel,
     propertyLevel |-> propertyLevel, propertyElement |-> propertyElement,
     p |-> p, err |-> err]

-----------------------------------------------------------------------------
(* The encoder: namespaces and prefixes                                    *)

\* m[k] of a Go map[string]string: the empty string for a missing key.
Lookup(m, k) == IF k \in DOMAIN m THEN m[k] ELSE <<>>

\* strconv.Itoa
RECURSIVE Itoa(_)
Itoa(n) ==
    IF n < 0 THEN <<"-">> \o Itoa(0 - n)
    ELSE IF n < 10 THEN <<Chars[6 + n]>>
    ELSE Itoa(n \div 10) \o <<Chars[6 + (n % 10)]>>

\* The qualifiers' namespaces: m[q.Name.Space] = struct{}{}; q.Value.getNamespaces(m)
RECURSIVE getNamespaces(_)
qualifierNamespaces(q) ==
    UNION {{q[i].Name.Space} \cup getNamespaces(q[i].Value) : i \in 1..Len(q)}

\* The collection without the namespaces of the field names.
RawStruct_getNamespaces_valuesOnly(s) ==
    UNION {getNamespaces(s.Value[key]) : key \in DOMAIN s.Value}
        \cup qualifierNamespaces(s.Q)

RawStruct_getNamespaces(s) ==
    UNION {{key.Space} \cup getNamespaces(s.Value[key]) : key \in DOMAIN s.Value}
        \cup qualifierNamespaces(s.Q)

RawArray_getNamespaces(a) ==
    UNION {getNamespaces(a.Value[i]) : i \in 1..Len(a.Value)}
        \cup qualifierNamespaces(a.Q)

getNamespaces(v) ==
    IF v.t = "RawStruct" THEN RawStruct_getNamespaces(v)
    ELSE IF v.t = "RawArray" THEN RawArray_getNamespaces(v)
    ELSE qualifierNamespaces(v.Q)

\* Packet.getNamespaces: the namespaces of the property names and of
\* everything inside the property values.
Packet_getNamespaces(pkt) ==
    UNION {{name.Space} \cup getNamespaces(pkt.Properties[name]) :
              name \in DOMAIN pkt.Properties}

defaultPrefix ==
    LET pairs == {
          <<xmlNamespace, <<"x","m","l">> >>,
          <<rdfNamespace, <<"r","d","f">> >>,
          <<<<"h","t","t","p",":","/","/","n","s",".","a","d","o","b","e",".","c","o","m","/","x","a","p","/","1",".","0","/">>, <<"x","m","p">> >>,
          <<<<"h","t","t","p",":","/","/","n","s",".","a","d","o","b","e",".","c","o","m","/","x","a","p","/","1",".","0","/","m","m","/">>, <<"x","m","p","M","M">> >>,
          <<<<"h","t","t","p",":","/","/","n","s",".","a","d","o","b","e",".","c","o","m","/","x","a","p","/","1",".","0","/","r","i","g","h","t","s","/">>, <<"x","m","p","R","i","g","h","t","s">> >>,
          <<<<"h","t","t","p",":","/","/","n","s",".","a","d","o","b","e",".","c","o","m","/","x","a","p","/","1",".","0","/","s","T","y","p","e","/","R","e","s","o","u","r","c","e","R","e","f","#">>, <<"s","t","R","e","f">> >>,
          <<<<"h","t","t","p",":","/","/","n","s",".","a","d","o","b","e",".","c","o","m","/","x","m","p","/","I","d","e","n","t","i","f","i","e","r","/","q","u","a","l","/","1",".","0","/">>, <<"x","m","p","i","d","q">> >>,
          <<<<"h","t","t","p",":","/","/","p","u","r","l",".","o","r","g","/","d","c","/","e","l","e","m","e","n","t","s","/","1",".","1","/">>, <<"d","c">> >> }
    IN [ns \in {pr[1] : pr \in pairs} |-> (CHOOSE pr \in pairs : pr[1] = ns)[2]]

\* for { if id := prefix + "_" + strconv.Itoa(idx); nsToPrefix[id] == "" {...}; idx-- }
RECURSIVE findFreePrefix(_, _, _)
findFreePrefix(m, prefix, idx) ==
    LET id == prefix \o <<"_">> \o Itoa(idx)
    IN IF Lookup(m, id) = <<>> THEN id ELSE findFreePrefix(m, prefix, idx - 1)

\* getPrefix(nsToPrefix, ns): the map passed in is keyed by namespace, and
\* the candidate prefix is looked up in it as a key.
getPrefix(m, ns) ==
    LET trimmed == TrimRight(ns, {"/", "#"})
        i       == LastIndex(trimmed, "/")
        last    == IF i > 0 THEN SubSeq(trimmed, i + 1, Len(trimmed)) ELSE trimmed
        named   == IF last = <<>> \/ ~IsName(last) \/ Contains(last, ":")
                   THEN <<"_">> ELSE last
        prefix  == IF Len(named) >= 3 /\ ToLower(SubSeq(named, 1, 3)) = <<"x","m","l">>
                   THEN <<"_">> \o named ELSE named
    IN  IF Lookup(m, prefix) # <<>>
        THEN findFreePrefix(m, prefix, Cardinality(DOMAIN m) + 1)
        ELSE prefix

\* The first loop of newEncoder: the namespaces in use that have a default
\* prefix (the result does not depend on the order of the iteration).
defaultsOf(nsUsed) ==
    [ns \in nsUsed \cap DOMAIN defaultPrefix |-> defaultPrefix[ns]]

\* The same loop, reading the package-level table as it is at that moment.
defaultsFrom(tbl, nsUsed) ==
    [ns \in nsUsed \cap DOMAIN tbl |-> tbl[ns]]

\* A newEncoder that enters the default prefixes of the namespaces in use
\* into the package-level table.
defaultPrefixAfter_registered(tbl, nsUsed) ==
    [ns \in DOMAIN tbl \cup nsUsed |->
        IF ns \in DOMAIN tbl THEN tbl[ns] ELSE getPrefix(tbl, ns)]

\* The package-level table after newEncoder: the code reads defaultPrefix[ns]
\* and assigns only to the maps it has made itself.
defaultPrefixAfter(tbl, nsUsed) == tbl

\* prefixToNS after the first loop.
invertDefaults(m) ==
    [pfx \in {m[ns] : ns \in DOMAIN m} |-> CHOOSE ns \in DOMAIN m : m[ns] = pfx]

\* nsUsed := p.getNamespaces(); nsUsed[xmlNamespace]; nsUsed[rdfNamespace]
nsUsedOf(pkt) == Packet_getNamespaces(pkt) \cup {xmlNamespace, rdfNamespace}

-----------------------------------------------------------------------------
(* The encoder: tokens                                                     *)

\* The name makeName returns where the code panics
\* ("namespace not registered").
PanicName == Name(<<>>, <<"!">>)

\* xml.Name{Local: pfx + ":" + local}
makeName(m, ns, local) ==
    IF ns \in DOMAIN m THEN Name(<<>>, m[ns] \o <<":">> \o local) ELSE PanicName

\* Q.getLang(nil): one xml:lang attribute per xml:lang qualifier with a Text value.
getLang(q) ==
    LET sel == SelectSeq(q, LAMBDA x : x.Name = nameXMLLang /\ x.Value.t = "Text")
    IN [i \in 1..Len(sel) |-> Attr(nameXMLLang, sel[i].Value.V)]

hasQualifiers(q) == \E i \in 1..Len(q) : q[i].Name # nameXMLLang

allSimple(q) == \A i \in 1..Len(q) : q[i].Value.t = "Text" /\ Len(q[i].Value.Q) = 0

\* RawStruct.allSimple
structAllSimple(s) ==
    \A k \in DOMAIN s.Value : s.Value[k].t = "Text" /\ Len(s.Value[k].Q) = 0

\* sort.Slice(names, ...): by Space, then by Local.
NameLess(a, b) ==
    IF a.Space # b.Space THEN StrLess(a.Space, b.Space) ELSE StrLess(a.Local, b.Local)

RECURSIVE sortNames(_)
sortNames(S) ==
    IF S = {} THEN <<>>
    ELSE LET least == CHOOSE a \in S : \A b \in S \ {a} : NameLess(a, b)
         IN <<least>> \o sortNames(S \ {least})

\* RawStruct.fieldNames
fieldNames(s) == sortNames(DOMAIN s.Value)

\* sort.Strings
RECURSIVE sortStrings(_)
sortStrings(S) ==
    IF S = {} THEN <<>>
    ELSE LET least == CHOOSE a \in S : \A b \in S \ {a} : StrLess(a, b)
         IN <<least>> \o sortStrings(S \ {least})

strBag == <<"B","a","g">>
strSeq == <<"S","e","q">>
strAlt == <<"A","l","t">>

RECURSIVE appendProperty(_, _, _)

\* for _, q := range val.Q { if q.Name == attrXMLLang { continue };
\*     tokens = e.appendProperty(tokens, e.makeName(q.Name.Space, q.Name.Local), q.Value) }
RECURSIVE appendQualifiers(_, _, _)
appendQualifiers(m, q, i) ==
    IF i > Len(q) THEN <<>>
    ELSE (IF q[i].Name = nameXMLLang THEN <<>>
          ELSE appendProperty(m, makeName(m, q[i].Name.Space, q[i].Name.Local), q[i].Value))
         \o appendQualifiers(m, q, i + 1)

\* for _, fieldName := range fieldNames { tokens = e.appendProperty(tokens, fName, val.Value[fieldName]) }
RECURSIVE appendFields(_, _, _, _)
appendFields(m, val, names, i) ==
    IF i > Len(names) THEN <<>>
    ELSE appendProperty(m, makeName(m, names[i].Space, names[i].Local), val.Value[names[i]])
         \o appendFields(m, val, names, i + 1)

\* for _, v := range val.Value { tokens = e.appendProperty(tokens, liName, v) }
RECURSIVE appendItems(_, _, _)
appendItems(m, items, i) ==
    IF i > Len(items) THEN <<>>
    ELSE appendProperty(m, makeName(m, rdfNamespace, nameRDFLi.Local), items[i])
         \o appendItems(m, items, i + 1)

attrParseTypeResource(m) ==
    Attr(makeName(m, rdfNamespace, nameRDFParseType.Local), strResource)

\* case TextValue, with every qualified text written in the form of option 4.
appendText_alwaysResource(m, name, val) ==
    LET rdfValue == makeName(m, rdfNamespace, nameRDFValue.Local)
    IN  IF ~hasQualifiers(val.Q)
        THEN <<StartElement(name, getLang(val.Q)), CharData(val.V), EndElement(name)>>
        ELSE <<StartElement(name, Append(getLang(val.Q), attrParseTypeResource(m))),
               StartElement(rdfValue, <<>>), CharData(val.V), EndElement(rdfValue)>>
             \o appendQualifiers(m, val.Q, 1)
             \o <<EndElement(name)>>

\* case TextValue, with option 5 taken whenever there is a qualifier other
\* than xml:lang.
appendText_alwaysCompact(m, name, val) ==
    LET rdfValue == makeName(m, rdfNamespace, nameRDFValue.Local)
    IN  IF ~hasQualifiers(val.Q)
        THEN <<StartElement(name, getLang(val.Q)), CharData(val.V), EndElement(name)>>
        ELSE <<EmptyElement(name,
                 [i \in 1..Len(val.Q) |->
                     Attr(makeName(m, val.Q[i].Name.Space, val.Q[i].Name.Local),
                          val.Q[i].Value.V)]
                 \o <<Attr(rdfValue, val.V)>>)>>

\* case TextValue
appendText(m, name, val) ==
    LET rdfValue == makeName(m, rdfNamespace, nameRDFValue.Local)
    IN  IF ~hasQualifiers(val.Q)                       \* option 1
        THEN <<StartElement(name, getLang(val.Q)), CharData(val.V), EndElement(name)>>
        ELSE IF allSimple(val.Q)                       \* option 5
        THEN <<EmptyElement(name,
                 [i \in 1..Len(val.Q) |->
                     Attr(makeName(m, val.Q[i].Name.Space, val.Q[i].Name.Local),
                          val.Q[i].Value.V)]
                 \o <<Attr(rdfValue, val.V)>>)>>
        ELSE                                           \* option 4
             <<StartElement(name, Append(getLang(val.Q), attrParseTypeResource(m))),
               StartElement(rdfValue, <<>>), CharData(val.V), EndElement(rdfValue)>>
             \o appendQualifiers(m, val.Q, 1)
             \o <<EndElement(name)>>

\* case URIValue
appendURL(m, name, val) ==
    LET rdfValue    == makeName(m, rdfNamespace, nameRDFValue.Local)
        rdfResource == makeName(m, rdfNamespace, nameRDFResource.Local)
        attr        == getLang(val.Q)
    IN  IF hasQualifiers(val.Q)                        \* option 4
        THEN <<StartElement(name, Append(attr, attrParseTypeResource(m))),
               EmptyElement(rdfValue, <<Attr(rdfResource, val.V)>>)>>
             \o appendQualifiers(m, val.Q, 1)
             \o <<EndElement(name)>>
        ELSE <<EmptyElement(name, Append(attr, Attr(rdfResource, val.V)))>>   \* option 1

\* case StructValue, without the test len(val.Value) > 0 of option 1c.
appendStruct_emptyAsAttributes(m, name, val) ==
    LET rdfValue == makeName(m, rdfNamespace, nameRDFValue.Local)
        attr     == getLang(val.Q)
        names    == fieldNames(val)
    IN  IF hasQualifiers(val.Q)
        THEN <<StartElement(name, Append(attr, attrParseTypeResource(m))),
               StartElement(rdfValue, <<attrParseTypeResource(m)>>)>>
             \o appendFields(m, val, names, 1)
             \o <<EndElement(rdfValue)>>
             \o appendQualifiers(m, val.Q, 1)
             \o <<EndElement(name)>>
        ELSE IF structAllSimple(val)
        THEN <<EmptyElement(name,
                 attr \o [i \in 1..Len(names) |->
                            Attr(makeName(m, names[i].Space, names[i].Local),
                                 val.Value[names[i]].V)])>>
        ELSE <<StartElement(name, Append(attr, attrParseTypeResource(m)))>>
             \o appendFields(m, val, names, 1)
             \o <<EndElement(name)>>

\* case StructValue
appendStruct(m, name, val) ==
    LET rdfValue == makeName(m, rdfNamespace, nameRDFValue.Local)
        attr     == getLang(val.Q)
        names    == fieldNames(val)
    IN  IF hasQualifiers(val.Q)                        \* option 4
        THEN <<StartElement(name, Append(attr, attrParseTypeResource(m))),
               StartElement(rdfValue, <<attrParseTypeResource(m)>>)>>
             \o appendFields(m, val, names, 1)
             \o <<EndElement(rdfValue)>>
             \o appendQualifiers(m, val.Q, 1)
             \o <<EndElement(name)>>
        ELSE IF structAllSimple(val) /\ Cardinality(DOMAIN val.Value) > 0   \* option 1c
        THEN <<EmptyElement(name,
                 attr \o [i \in 1..Len(names) |->
                            Attr(makeName(m, names[i].Space, names[i].Local),
                                 val.Value[names[i]].V)])>>
        ELSE <<StartElement(name, Append(attr, attrParseTypeResource(m)))>>  \* option 1b
             \o appendFields(m, val, names, 1)
             \o <<EndElement(name)>>

\* case ArrayValue, with the rdf:value element of option 4 left open.
appendArray_valueNotClosed(m, name, val) ==
    LET rdfValue == makeName(m, rdfNamespace, nameRDFValue.Local)
        attr     == getLang(val.Q)
        env      == IF val.Kind = Unordered THEN strBag
                    ELSE IF val.Kind = Ordered THEN strSeq
                    ELSE strAlt
        envName  == makeName(m, rdfNamespace, env)
    IN  IF hasQualifiers(val.Q)
        THEN <<StartElement(name, Append(attr, attrParseTypeResource(m))),
               StartElement(rdfValue, <<>>),
               StartElement(envName, <<>>)>>
             \o appendItems(m, val.Value, 1)
             \o <<EndElement(envName)>>
             \o appendQualifiers(m, val.Q, 1)
             \o <<EndElement(name)>>
        ELSE <<StartElement(name, attr), StartElement(envName, <<>>)>>
             \o appendItems(m, val.Value, 1)
             \o <<EndElement(envName), EndElement(name)>>

\* case ArrayValue
appendArray(m, name, val) ==
    LET rdfValue == makeName(m, rdfNamespace, nameRDFValue.Local)
        attr     == getLang(val.Q)
        env      == IF val.Kind = Unordered THEN strBag
                    ELSE IF val.Kind = Ordered THEN strSeq
                    ELSE strAlt
        envName  == makeName(m, rdfNamespace, env)
    IN  IF hasQualifiers(val.Q)                        \* option 4
        THEN <<StartElement(name, Append(attr, attrParseTypeResource(m))),
               StartElement(rdfValue, <<>>),
               StartElement(envName, <<>>)>>
             \o appendItems(m, val.Value, 1)
             \o <<EndElement(envName), EndElement(rdfValue)>>
             \o appendQualifiers(m, val.Q, 1)
             \o <<EndElement(name)>>
        ELSE <<StartElement(name, attr), StartElement(envName, <<>>)>>    \* option 1
             \o appendItems(m, val.Value, 1)
             \o <<EndElement(envName), EndElement(name)>>

appendProperty(m, name, value) ==
    IF value.t = "Text" THEN appendText(m, name, value)
    ELSE IF value.t = "URL" THEN appendURL(m, name, value)
    ELSE IF value.t = "RawStruct" THEN appendStruct(m, name, value)
    ELSE appendArray(m, name, value)

strXpacket == <<"x","p","a","c","k","e","t">>
strXmlnsColon == <<"x","m","l","n","s",":">>

\* The header with the rdf:about attribute left empty.
encoderHeader_emptyAbout(m, pkt) ==
    LET nameSpaces == SelectSeq(sortStrings(DOMAIN m), LAMBDA ns : ns # xmlNamespace)
    IN  <<ProcInst(strXpacket, <<"begin">>),
          CharData(<<"\n">>),
          StartElement(makeName(m, rdfNamespace, nameRDFRoot.Local),
              [i \in 1..Len(nameSpaces) |->
                  Attr(Name(<<>>, strXmlnsColon \o m[nameSpaces[i]]), nameSpaces[i])]),
          StartElement(makeName(m, rdfNamespace, nameRDFDescription.Local),
              <<Attr(makeName(m, rdfNamespace, nameRDFAbout.Local), <<>>)>>)>>

\* The tokens newEncoder passes to EncodeToken once the prefixes are chosen.
encoderHeader(m, pkt) ==
    LET nameSpaces == SelectSeq(sortStrings(DOMAIN m), LAMBDA ns : ns # xmlNamespace)
        about      == IF pkt.About = NilURL THEN <<>> ELSE pkt.About
    IN  <<ProcInst(strXpacket, <<"begin">>),
          CharData(<<"\n">>),
          StartElement(makeName(m, rdfNamespace, nameRDFRoot.Local),
              [i \in 1..Len(nameSpaces) |->
                  Attr(Name(<<>>, strXmlnsColon \o m[nameSpaces[i]]), nameSpaces[i])]),
          StartElement(makeName(m, rdfNamespace, nameRDFDescription.Local),
              <<Attr(makeName(m, rdfNamespace, nameRDFAbout.Local), about)>>)>>

\* encoder.Close
encoderClose(m) ==
    <<EndElement(makeName(m, rdfNamespace, nameRDFDescription.Local)),
      EndElement(makeName(m, rdfNamespace, nameRDFRoot.Local)),
      CharData(<<"\n">>),
      ProcInst(strXpacket, <<"end">>)>>

\* The loop of Packet.Write over the sorted property names.
RECURSIVE writeProperties(_, _, _, _)
writeProperties(m, pkt, names, i) ==
    IF i > Len(names) THEN <<>>
    ELSE appendProperty(m, makeName(m, names[i].Space, names[i].Local),
                        pkt.Properties[names[i]])
         \o writeProperties(m, pkt, names, i + 1)

\* Everything Packet.Write passes to EncodeToken after the prefixes are chosen.
writeTokens(m, pkt) ==
    encoderHeader(m, pkt)
        \o writeProperties(m, pkt, sortNames(DOMAIN pkt.Properties), 1)
        \o encoderClose(m)

\* Some call of makeName during Write panics.
writePanics(tokens) ==
    \E i \in 1..Len(tokens) :
        \/ tokens[i].name = PanicName
        \/ \E j \in 1..Len(tokens[i].attr) : tokens[i].attr[j].Name = PanicName

-----------------------------------------------------------------------------
(* The written text, as xml.Decoder tokenises it again                     *)

countColons(s) == Cardinality({i \in 1..Len(s) : s[i] = ":"})

\* The xmlns:pfx="ns" attributes of a start tag, as prefix |-> ns; of two
\* declarations of one prefix the later one counts.
RECURSIVE bindingsFrom(_, _, _)
bindingsFrom(attr, i, b) ==
    IF i > Len(attr) THEN b
    ELSE LET n == attr[i].Name.Local IN
         bindingsFrom(attr, i + 1,
            IF attr[i].Name.Space = <<>> /\ HasPrefix(n, strXmlnsColon)
                 /\ Len(n) > Len(strXmlnsColon)
            THEN MapSet(b, SubSeq(n, Len(strXmlnsColon) + 1, Len(n)), attr[i].Value)
            ELSE b)

\* The name the decoder reports for a written name: an attribute of the XML
\* namespace is written with the prefix xml; a name pfx:local is split at the
\* colon and its prefix translated by the bindings in scope (an undeclared
\* prefix is kept as the Space).
translate(b, n) ==
    IF n.Space # <<>> THEN n
    ELSE LET i == Index(n.Local, ":") IN
         IF countColons(n.Local) # 1 \/ i < 2 \/ i > Len(n.Local) - 1
         THEN Name(<<>>, n.Local)
         ELSE LET pfx   == SubSeq(n.Local, 1, i - 1)
                  local == SubSeq(n.Local, i + 1, Len(n.Local))
              IN IF pfx = xmlnsSpace THEN Name(xmlnsSpace, local)
                 ELSE IF pfx = <<"x","m","l">> THEN Name(xmlNamespace, local)
                 ELSE IF pfx \in DOMAIN b THEN Name(b[pfx], local)
                 ELSE Name(pfx, local)

translateAttrs(b, attr) ==
    [i \in 1..Len(attr) |-> Attr(translate(b, attr[i].Name), attr[i].Value)]

\* The tokens xml.Decoder delivers for the text EncodeToken wrote: a
\* self-closing element is a start and an end element, empty character data
\* leaves no token, and the names are translated by the namespace
\* declarations, which the encoder puts on the rdf:RDF element.
RECURSIVE decodeTokensFrom(_, _, _)
decodeTokensFrom(tokens, i, b) ==
    IF i > Len(tokens) THEN <<>>
    ELSE LET t  == tokens[i]
             b2 == IF t.k = "StartElement" THEN bindingsFrom(t.attr, 1, b) ELSE b
         IN (IF t.k = "StartElement"
             THEN <<StartElement(translate(b2, t.name), translateAttrs(b2, t.attr))>>
             ELSE IF t.k = "EmptyElement"
             THEN <<StartElement(translate(b2, t.name), translateAttrs(b2, t.attr)),
                    EndElement(translate(b2, t.name))>>
             ELSE IF t.k = "EndElement"
             THEN <<EndElement(translate(b2, t.name))>>
             ELSE IF t.k = "CharData" /\ t.v = <<>>
             THEN <<>>
             ELSE <<t>>)
            \o decodeTokensFrom(tokens, i + 1, b2)

decodeTokens(tokens) == decodeTokensFrom(tokens, 1, EmptyMap)

-----------------------------------------------------------------------------
(* Inputs                                                                  *)

\* The largest number of property elements in one rdf:Description.
MaxProps == 2

nsT == <<"t",":","/","a">>
nsU == <<"u",":","/","a">>
nsA == <<"a">>
nsV == <<"t",":","/","b">>
nsBad == <<":">>

strP == <<"p">>
strQ == <<"q">>
strR == <<"r">>
strS == <<"s">>
strF == <<"f">>
strV == <<"v">>
strX == <<"x">>
strY == <<"y">>
strOne == <<"1">>
strTwo == <<"2">>
strURI == <<"u",":","x">>

\* <name attr...>text</name>
Lit(name, attr, text) == <<StartElement(name, attr), CharData(text), EndElement(name)>>
\* <name attr.../>
Emp(name, attr) == <<StartElement(name, attr), EndElement(name)>>
\* <name attr...> inner </name>
Wrap(name, attr, inner) == <<StartElement(name, attr)>> \o inner \o <<EndElement(name)>>

RECURSIVE Flatten(_)
Flatten(ss) == IF ss = <<>> THEN <<>> ELSE Head(ss) \o Flatten(Tail(ss))

parseTypeAttr(v) == Attr(nameRDFParseType, v)

\* Property elements in the forms the decoder tells apart.
ValidProps ==
    { Lit(Name(nsT, strP), <<>>, strV),
      Lit(Name(nsU, strP), <<Attr(nameXMLLang, strX)>>, strV),
      Emp(Name(nsA, strP), <<Attr(nameRDFResource, strURI)>>),
      Emp(Name(nsT, strQ), <<Attr(Name(nsT, strQ), strOne), Attr(nameRDFValue, strV)>>),
      \* a text value with a URI-valued qualifier
      Wrap(Name(nsT, strQ), <<>>,
           Wrap(nameRDFDescription, <<Attr(nameRDFValue, strV)>>,
                Emp(Name(nsT, strR), <<Attr(nameRDFResource, strURI)>>))),
      \* the same with the empty text
      Wrap(Name(nsT, strQ), <<>>,
           Wrap(nameRDFDescription, <<Attr(nameRDFValue, <<>>)>>,
                Emp(Name(nsT, strR), <<Attr(nameRDFResource, strURI)>>))),
      \* a structure with a field of another namespace, a field without
      \* namespace and an attribute without namespace
      Wrap(Name(nsT, strS), <<>>,
           Wrap(nameRDFDescription, <<Attr(Name(<<>>, strQ), strOne)>>,
                Lit(Name(nsV, strF), <<>>, strOne) \o Lit(Name(<<>>, strF), <<>>, strTwo))),
      \* a structure written with rdf:parseType="Resource"
      Wrap(Name(nsT, strS), <<parseTypeAttr(strResource)>>,
           Lit(Name(nsT, strF), <<Attr(Name(nsBad, strQ), strOne)>>, strOne)),
      \* a typed node
      Wrap(Name(nsT, strR), <<>>,
           Wrap(Name(nsV, strS), <<>>, Lit(Name(nsT, strF), <<>>, strOne))),
      \* an array, with character data before the envelope and between its items
      Wrap(Name(nsT, strR), <<>>,
           <<CharData(strY)>> \o
           Wrap(nameRDFBag, <<>>,
                Lit(nameRDFLi, <<>>, strOne) \o <<CharData(strX)>>
                    \o Lit(nameRDFLi, <<>>, strTwo))),
      \* an array with qualifiers, character data around the envelope
      Wrap(Name(nsT, strR), <<parseTypeAttr(strResource)>>,
           <<CharData(strY)>>
           \o Wrap(nameRDFValue, <<>>,
                   Wrap(nameRDFSeq, <<>>, Lit(nameRDFLi, <<>>, strOne)))
           \o <<CharData(strY)>>
           \o Lit(Name(nsT, strQ), <<>>, strTwo)),
      \* a qualified empty text: rdf:value is an empty element
      Wrap(Name(nsT, strQ), <<parseTypeAttr(strResource)>>,
           Emp(nameRDFValue, <<>>) \o Lit(Name(nsT, strR), <<>>, strOne)),
      \* a qualified text: rdf:value is an element with an rdf:value attribute
      Wrap(Name(nsU, strQ), <<parseTypeAttr(strResource)>>,
           Emp(nameRDFValue, <<Attr(nameRDFValue, strV)>>)
               \o Lit(Name(nsT, strR), <<>>, strTwo)) }

\* Property elements with rdf:parseType other than "Resource".
ParseTypeProps ==
    { Lit(Name(nsT, strP), <<parseTypeAttr(strLiteral)>>, strV),
      Emp(Name(nsT, strP), <<parseTypeAttr(strCollection)>>),
      Lit(Name(nsT, strP), <<Attr(nameXMLLang, strX), parseTypeAttr(strX)>>, strV),
      \* another attribute comes first
      Emp(Name(nsT, strP), <<Attr(Name(nsT, strQ), strOne), parseTypeAttr(strLiteral)>>),
      \* more than three attributes
      Emp(Name(nsT, strP), <<parseTypeAttr(strCollection), Attr(nameXMLLang, strX),
                             Attr(nameRDFID, strX), Attr(nameRDFNodeID, strY)>>) }

\* Property elements whose name fails isValidPropertyName.
InvalidProps ==
    { Lit(Name(<<>>, strP), <<>>, strV),
      Lit(nameRDFLi, <<>>, strV),
      Lit(Name(xmlNamespace, strP), <<>>, strV),
      Emp(Name(nsBad, strP), <<Attr(nameRDFResource, strURI)>>) }

PropPool == ValidProps \cup ParseTypeProps \cup InvalidProps

PropSeqs == UNION {[1..n -> PropPool] : n \in 0..MaxProps}

\* Values of rdf:about: none, empty, two URIs, the same URI with its scheme
\* in upper case, and a string url.Parse rejects.
AboutValues == { <<>>, strX, strY, <<"U",":","x">>, strURI, nsBad }
AboutAttrs == {<<>>} \cup {<<Attr(nameRDFAbout, v)>> : v \in AboutValues}

\* Attributes of rdf:Description other than rdf:about.
DescAttrs ==
    { <<Attr(Name(nsT, strP), strOne)>>,
      <<Attr(Name(<<>>, strP), strOne)>>,
      <<Attr(Name(nsU, strQ), strOne), Attr(nameRDFLi, strTwo)>> }

nameXMPMeta == Name(<<"x">>, <<"x","m","p","m","e","t","a">>)

\* <?xpacket?><x:xmpmeta><rdf:RDF> descriptions </rdf:RDF></x:xmpmeta>
Packet1(attr, props) ==
    <<ProcInst(strXpacket, <<"begin">>)>>
    \o Wrap(nameXMPMeta, <<>>,
            Wrap(nameRDFRoot, <<>>, Wrap(nameRDFDescription, attr, Flatten(props))))

Packet2(attr1, attr2) ==
    Wrap(nameRDFRoot, <<>>,
         Wrap(nameRDFDescription, attr1, Lit(Name(nsT, strP), <<>>, strV))
         \o Wrap(nameRDFDescription, attr2, Lit(Name(nsV, strQ), <<>>, strV)))

\* Elements outside rdf:RDF: an rdf:Description with rdf:about, a property
\* attribute and a property element, and a property element on its own.
OutsideElems ==
    { Wrap(nameRDFDescription,
           <<Attr(nameRDFAbout, strY), Attr(Name(nsU, strQ), strOne)>>,
           Lit(Name(nsV, strQ), <<>>, strTwo)),
      Lit(Name(nsT, strQ), <<>>, strOne) }

\* A packet with elements before and after rdf:RDF, inside x:xmpmeta or not.
Packet3(before, after, wrapped) ==
    LET root == Wrap(nameRDFRoot, <<>>,
                     Wrap(nameRDFDescription, <<Attr(nameRDFAbout, strX)>>,
                          Lit(Name(nsT, strP), <<>>, strV)))
    IN  IF wrapped THEN Wrap(nameXMPMeta, <<>>, before \o root \o after)
        ELSE before \o root \o after

Docs ==
    {Packet1(<<>>, props) : props \in PropSeqs}
    \cup {Packet1(attr, <<Lit(Name(nsT, strP), <<>>, strV)>>) : attr \in DescAttrs}
    \cup {Packet2(attr1, attr2) : attr1 \in AboutAttrs, attr2 \in AboutAttrs}
    \cup {Packet3(before, after, wrapped) :
             before \in OutsideElems \cup {<<>>},
             after \in OutsideElems \cup {<<>>},
             wrapped \in BOOLEAN}

\* Candidate names for the validators.
NameSpaces ==
    { <<>>, xmlNamespace, rdfNamespace, xmlnsSpace, nsBad, <<"%","z">>, nsT, nsA }
NameLocals ==
    { <<>>, nameRDFType.Local, nameXMLLang.Local, strP, <<"a",":","b">>,
      <<"1","x">>, nameRDFValue.Local, <<":">> }

-----------------------------------------------------------------------------
(* jvxml: the Encoder and its printer                                      *)

strXml == <<"x","m","l">>

\* Tokens the repository's encoder does not emit: xml.Comment,
\* xml.Directive, and a value that is no token type.
Comment(v)   == [k |-> "Comment", name |-> NoName, attr |-> <<>>, v |-> v]
Directive(v) == [k |-> "Directive", name |-> NoName, attr |-> <<>>, v |-> v]
InvalidToken == [k |-> "Invalid", name |-> NoName, attr |-> <<>>, v |-> <<>>]

\* bytes.Contains(s, sub)
RECURSIVE ContainsAt(_, _, _)
ContainsAt(s, sub, i) ==
    IF i + Len(sub) - 1 > Len(s) THEN FALSE
    ELSE SubSeq(s, i, i + Len(sub) - 1) = sub \/ ContainsAt(s, sub, i + 1)

ContainsSeq(s, sub) == ContainsAt(s, sub, 1)

\* The escaping of text and attribute values: & < > " are written as
\* entities, everything else as it is.
escapeChar(c) ==
    IF c = "&" THEN <<"&","a","m","p",";">>
    ELSE IF c = "<" THEN <<"&","l","t",";">>
    ELSE IF c = ">" THEN <<"&","g","t",";">>
    ELSE IF c = "\"" THEN <<"&","#","3","4",";">>
    ELSE <<c>>

RECURSIVE escapeText(_)
escapeText(s) ==
    IF s = <<>> THEN <<>> ELSE escapeChar(Head(s)) \o escapeText(Tail(s))

\* isNameString(t.Target)
isNameString(s) == IsName(s)

\* The bufio.Writer of the printer and the io.Writer under it: buf is the
\* buffered text, werr its sticky error, sink what the io.Writer has taken;
\* an io.Writer that is broken fails every Write.
bufioWrite(pr, s) ==
    IF pr.werr THEN [pr EXCEPT !.err = TRUE]
    ELSE [pr EXCEPT !.buf = pr.buf \o s]

\* bufio.Writer.Flush: the state after it, and whether it returned an error.
bufioFlush(pr) ==
    IF pr.werr \/ pr.buf = <<>> THEN pr
    ELSE IF pr.broken THEN [pr EXCEPT !.werr = TRUE]
    ELSE [pr EXCEPT !.sink = pr.sink \o pr.buf, !.buf = <<>>]

bufioFlushFails(pr) == pr.werr \/ (pr.buf # <<>> /\ pr.broken)

\* printer.Write, WriteString, WriteByte: one or more of these calls in a
\* row that pass the text s between them.
printerWrite(pr, s) ==
    IF pr.closed \/ pr.err THEN [pr EXCEPT !.err = TRUE]
    ELSE bufioWrite(pr, s)

\* printer.writeIndent: the text it writes ...
indentText(pr, depthDelta) ==
    IF pr.indent = <<>> THEN <<>>
    ELSE IF depthDelta < 0 /\ pr.indentedIn THEN <<>>
    ELSE (IF pr.putNewline THEN <<"\n">> ELSE <<>>)
         \o Flatten([i \in 1..(IF depthDelta < 0 THEN pr.depth - 1 ELSE pr.depth)
                        |-> pr.indent])

\* ... and the printer's fields after it.
indentState(pr, depthDelta) ==
    IF pr.indent = <<>> THEN pr
    ELSE IF depthDelta < 0
    THEN IF pr.indentedIn
         THEN [pr EXCEPT !.depth = pr.depth - 1, !.indentedIn = FALSE]
         ELSE [pr EXCEPT !.depth = pr.depth - 1, !.putNewline = TRUE]
    ELSE [pr EXCEPT !.depth = pr.depth + 1, !.indentedIn = TRUE, !.putNewline = TRUE]


\* The sequence number createAttrPrefix settles on: the first n, counting up
\* from p.seq + 1, for which prefix_n is not taken.
RECURSIVE freeSeq(_, _, _)
freeSeq(pr, prefix, n) ==
    IF Lookup(pr.attrNS, prefix \o <<"_">> \o Itoa(n)) = <<>> THEN n
    ELSE freeSeq(pr, prefix, n + 1)

\* createAttrPrefix: the candidate prefix for a name space.
attrPrefixCandidate(url) ==
    LET trimmed == TrimRight(url, {"/"})
        i       == LastIndex(trimmed, "/")
        last    == IF i > 0 THEN SubSeq(trimmed, i + 1, Len(trimmed)) ELSE trimmed
        named   == IF last = <<>> \/ ~IsName(last) \/ Contains(last, ":")
                   THEN <<"_">> ELSE last
    IN  IF Len(named) >= 3 /\ ToLower(SubSeq(named, 1, 3)) = strXml
        THEN <<"_">> \o named ELSE named

\* createAttrPrefix defines a new prefix for the name space.
definesPrefix(pr, url) == Lookup(pr.attrPrefix, url) = <<>> /\ url # xmlNamespace

\* createAttrPrefix: the prefix it returns, ...
createAttrPrefix(pr, url) ==
    IF Lookup(pr.attrPrefix, url) # <<>> THEN pr.attrPrefix[url]
    ELSE IF url = xmlNamespace THEN strXml
    ELSE IF Lookup(pr.attrNS, attrPrefixCandidate(url)) # <<>>
    THEN attrPrefixCandidate(url) \o <<"_">>
            \o Itoa(freeSeq(pr, attrPrefixCandidate(url), pr.seq + 1))
    ELSE attrPrefixCandidate(url)

\* ... the declaration it writes, ...
attrPrefixText(pr, url) ==
    IF definesPrefix(pr, url)
    THEN strXmlnsColon \o createAttrPrefix(pr, url) \o <<"=", "\"">>
            \o escapeText(url) \o <<"\"", " ">>
    ELSE <<>>

\* ... and the printer's fields after it.
attrPrefixState(pr, url) ==
    IF definesPrefix(pr, url)
    THEN [pr EXCEPT
            !.seq = IF Lookup(pr.attrNS, attrPrefixCandidate(url)) # <<>>
                    THEN freeSeq(pr, attrPrefixCandidate(url), pr.seq + 1)
                    ELSE pr.seq,
            !.attrPrefix = MapSet(pr.attrPrefix, url, createAttrPrefix(pr, url)),
            !.attrNS = MapSet(pr.attrNS, createAttrPrefix(pr, url), url),
            !.prefixes = Append(pr.prefixes, createAttrPrefix(pr, url))]
    ELSE pr

\* A Go map without the key.
MapDelete(m, key) == [n \in (DOMAIN m) \ {key} |-> m[n]]

\* deleteAttrPrefix
deleteAttrPrefix(pr, prefix) ==
    [pr EXCEPT !.attrPrefix = MapDelete(pr.attrPrefix, Lookup(pr.attrNS, prefix)),
               !.attrNS = MapDelete(pr.attrNS, prefix)]

\* popPrefix: prefixes are popped, and deleted, down to the last mark.
RECURSIVE popPrefix(_)
popPrefix(pr) ==
    IF pr.prefixes = <<>> THEN pr
    ELSE IF pr.prefixes[Len(pr.prefixes)] = <<>>
    THEN [pr EXCEPT !.prefixes = SubSeq(pr.prefixes, 1, Len(pr.prefixes) - 1)]
    ELSE popPrefix(deleteAttrPrefix(
            [pr EXCEPT !.prefixes = SubSeq(pr.prefixes, 1, Len(pr.prefixes) - 1)],
            pr.prefixes[Len(pr.prefixes)]))

\* The loop of writeStart over the attributes: the text written for them ...
RECURSIVE attrsText(_, _, _)
attrsText(pr, attr, i) ==
    IF i > Len(attr) THEN <<>>
    ELSE IF attr[i].Name.Local = <<>> THEN attrsText(pr, attr, i + 1)
    ELSE <<" ">>
         \o (IF attr[i].Name.Space # <<>>
             THEN attrPrefixText(pr, attr[i].Name.Space)
                    \o createAttrPrefix(pr, attr[i].Name.Space) \o <<":">>
             ELSE <<>>)
         \o attr[i].Name.Local \o <<"=", "\"">> \o escapeText(attr[i].Value) \o <<"\"">>
         \o attrsText(IF attr[i].Name.Space # <<>>
                      THEN attrPrefixState(pr, attr[i].Name.Space) ELSE pr,
                      attr, i + 1)

\* ... and the printer's fields after it.
RECURSIVE attrsState(_, _, _)
attrsState(pr, attr, i) ==
    IF i > Len(attr) THEN pr
    ELSE IF attr[i].Name.Local = <<>> \/ attr[i].Name.Space = <<>>
    THEN attrsState(pr, attr, i + 1)
    ELSE attrsState(attrPrefixState(pr, attr[i].Name.Space), attr, i + 1)


\* writeStart: the tag is pushed and the prefixes marked, unless empty.
startOpened(pr, name, empty) ==
    IF empty THEN pr
    ELSE [pr EXCEPT !.tags = Append(pr.tags, name),
                    !.prefixes = Append(pr.prefixes, <<>>)]

\* writeStart: the text of the tag.
startText(pr, name, attr, empty) ==
    indentText(pr, 1) \o <<"<">> \o name.Local
        \o (IF name.Space # <<>>
            THEN <<" ">> \o <<"x","m","l","n","s","=","\"">> \o escapeText(name.Space) \o <<"\"">>
            ELSE <<>>)
        \o attrsText(pr, attr, 1)
        \o (IF empty THEN <<"/", ">">> ELSE <<">">>)

\* writeStart: the printer's fields after the indentation and the attributes.
startState(pr, attr, empty) ==
    IF empty THEN indentState(indentState(attrsState(pr, attr, 1), 1), -1)
    ELSE indentState(attrsState(pr, attr, 1), 1)

writeStartFails(name) == name.Local = <<>>

\* printer.writeStart, where it returns nil.
writeStart(pr, name, attr, empty) ==
    printerWrite(startState(startOpened(pr, name, empty), attr, empty),
                 startText(startOpened(pr, name, empty), name, attr, empty))

\* printer.writeEnd without the comparison with the innermost open tag.
writeEndFails_unmatched(pr, name) ==
    \/ name.Local = <<>>
    \/ Len(pr.tags) = 0

\* printer.writeEnd returns an error: no name, no open tag, or another name
\* than that of the innermost open tag.
writeEndFails(pr, name) ==
    \/ name.Local = <<>>
    \/ Len(pr.tags) = 0
    \/ pr.tags[Len(pr.tags)].Local = <<>>
    \/ pr.tags[Len(pr.tags)] # name

\* printer.writeEnd, where it returns nil.
writeEnd(pr, name) ==
    printerWrite(
        popPrefix(indentState([pr EXCEPT !.tags = SubSeq(pr.tags, 1, Len(pr.tags) - 1)], -1)),
        indentText(pr, -1) \o <<"<", "/">> \o name.Local \o <<">">>)

\* isValidDirective: the loop over the bytes, from byte i on, and the test
\* after it.
RECURSIVE validDirectiveFrom(_, _, _, _, _)
validDirectiveFrom(dir, i, depth, inquote, incomment) ==
    IF i > Len(dir) THEN depth = 0 /\ inquote = <<>> /\ ~incomment
    ELSE IF incomment
    THEN validDirectiveFrom(dir, i + 1, depth, inquote,
            ~(dir[i] = ">" /\ i >= 3 /\ SubSeq(dir, i - 2, i) = <<"-","-",">">>))
    ELSE IF inquote # <<>>
    THEN validDirectiveFrom(dir, i + 1, depth,
            IF <<dir[i]>> = inquote THEN <<>> ELSE inquote, FALSE)
    ELSE IF dir[i] \in {"'", "\""}
    THEN validDirectiveFrom(dir, i + 1, depth, <<dir[i]>>, FALSE)
    ELSE IF dir[i] = "<"
    THEN IF i + 3 < Len(dir) /\ SubSeq(dir, i, i + 3) = <<"<","!","-","-">>
         THEN validDirectiveFrom(dir, i + 1, depth, inquote, TRUE)
         ELSE validDirectiveFrom(dir, i + 1, depth + 1, inquote, FALSE)
    ELSE IF dir[i] = ">"
    THEN depth # 0 /\ validDirectiveFrom(dir, i + 1, depth - 1, inquote, FALSE)
    ELSE validDirectiveFrom(dir, i + 1, depth, inquote, FALSE)

isValidDirective(dir) == validDirectiveFrom(dir, 1, 0, <<>>, FALSE)

\* case xml.ProcInst: the three tests that return an error.
procInstRejected(pr, t) ==
    \/ (t.name.Local = strXml /\ Len(pr.buf) # 0)
    \/ ~isNameString(t.name.Local)
    \/ ContainsSeq(t.v, <<"?", ">">>)

\* EncodeToken returns an error before the token is written.
tokenRejected(pr, t) ==
    IF t.k \in {"StartElement", "EmptyElement"} THEN writeStartFails(t.name)
    ELSE IF t.k = "EndElement" THEN writeEndFails(pr, t.name)
    ELSE IF t.k = "CharData" THEN FALSE
    ELSE IF t.k = "Comment" THEN ContainsSeq(t.v, <<"-","-",">">>)
    ELSE IF t.k = "ProcInst" THEN procInstRejected(pr, t)
    ELSE IF t.k = "Directive" THEN ~isValidDirective(t.v)
    ELSE TRUE

\* The printer after the writes of EncodeToken for a token it does not reject.
tokenWritten(pr, t) ==
    IF t.k = "StartElement" THEN writeStart(pr, t.name, t.attr, FALSE)
    ELSE IF t.k = "EmptyElement" THEN writeStart(pr, t.name, t.attr, TRUE)
    ELSE IF t.k = "EndElement" THEN writeEnd(pr, t.name)
    ELSE IF t.k = "CharData" THEN printerWrite(pr, escapeText(t.v))
    ELSE IF t.k = "Comment"
    THEN printerWrite(pr, <<"<","!","-","-">> \o t.v \o <<"-","-",">">>)
    ELSE IF t.k = "ProcInst"
    THEN printerWrite(pr, <<"<","?">> \o t.name.Local
            \o (IF Len(t.v) > 0 THEN <<" ">> \o t.v ELSE <<>>) \o <<"?",">">>)
    ELSE printerWrite(pr, <<"<","!">> \o t.v \o <<">">>)

\* printer.cachedWriteError: p.Write(nil)
cachedWriteError(pr) == printerWrite(pr, <<>>)

\* Encoder.EncodeToken with writes that do not test p.closed.
EncodeToken_ignoresClosed(pr, t) ==
    IF tokenRejected(pr, t) THEN pr
    ELSE [tokenWritten([pr EXCEPT !.closed = FALSE], t) EXCEPT !.closed = pr.closed]

\* Encoder.EncodeToken: the printer after the call ...
EncodeToken(pr, t) ==
    IF tokenRejected(pr, t) THEN pr ELSE cachedWriteError(tokenWritten(pr, t))

\* ... and whether the call returned an error.
EncodeTokenFails(pr, t) == tokenRejected(pr, t) \/ EncodeToken(pr, t).err

\* Encoder.Flush
Flush(pr) == bufioFlush(pr)

FlushFails(pr) == bufioFlushFails(pr)

\* printer.Close: the printer after the call ...
Close(pr) == IF pr.closed THEN pr ELSE bufioFlush([pr EXCEPT !.closed = TRUE])

\* printer.Close without the test for open tags.
CloseFails_ignoresTags(pr) == ~pr.closed /\ bufioFlushFails(pr)

\* ... and whether the call returned an error.
CloseFails(pr) == ~pr.closed /\ (bufioFlushFails(pr) \/ Len(pr.tags) > 0)

\* NewEncoder(w), after Indent("", indent) where indent is not empty.
NewEncoder_printer(indent, broken) ==
    [tags |-> <<>>, closed |-> FALSE, err |-> FALSE,
     buf |-> <<>>, werr |-> FALSE, sink |-> <<>>, broken |-> broken,
     seq |-> 0, indent |-> indent, depth |-> 0,
     indentedIn |-> FALSE, putNewline |-> FALSE,
     attrNS |-> [n \in {} |-> <<>>], attrPrefix |-> [n \in {} |-> <<>>],
     prefixes |-> <<>>]

-----------------------------------------------------------------------------
(* The state machine                                                       *)

NoPacket == [About |-> NilURL, Properties |-> EmptyMap, none |-> TRUE]

IdleWrite ==
    /\ run = 0 /\ nsTodo = {} /\ nsToPrefix = EmptyMap /\ prefixToNS = EmptyMap
    /\ out = <<>> /\ out1 = <<>> /\ fatal = FALSE /\ p2 = NoPacket /\ err2 = FALSE

IdleRead ==
    /\ pos = 0 /\ level = 0 /\ descriptionLevel = -1 /\ propertyLevel = -1
    /\ propertyElement = <<>> /\ p = NewPacket /\ err = FALSE

\* No Encoder is driven and no concurrent caller runs.
IdleOther ==
    /\ enc = <<>> /\ hist = <<>> /\ calls = <<>> /\ table = defaultPrefix

\* The value of eltValue before parsePropertyElement has returned.
NotCalled == [t |-> "none"]

\* Neither parsePropertyElement nor getPrefix is called on its own.
IdleUnit ==
    /\ elem = <<>> /\ eltType = -1 /\ eltValue = NotCalled /\ gp = <<>>

Init ==
    /\ nm = NoName /\ vp = "unset" /\ vq = "unset"
    /\ doc \in Docs
    /\ IdleRead
    /\ IdleWrite
    /\ IdleOther
    /\ IdleUnit
    /\ pc = "read"

InitNames ==
    /\ nm \in {Name(space, local) : space \in NameSpaces, local \in NameLocals}
    /\ vp = "unset" /\ vq = "unset"
    /\ doc = <<>>
    /\ IdleRead
    /\ IdleWrite
    /\ IdleOther
    /\ IdleUnit
    /\ pc = "names"

writeVars == <<run, nsTodo, nsToPrefix, prefixToNS, out, out1, fatal, p2, err2>>
readVars == <<pos, level, descriptionLevel, propertyLevel, propertyElement, p, err>>
nameVars == <<nm, vp, vq>>
otherVars == <<enc, hist, calls, table>>
unitVars == <<elem, eltType, eltValue, gp>>

verdict(ok) == IF ok THEN "accept" ELSE "reject"

\* The two validators applied to the name.
Validate ==
    /\ pc = "names"
    /\ vp' = verdict(isValidPropertyName(nm))
    /\ vq' = verdict(isValidQualifierName(nm))
    /\ pc' = "done"
    /\ UNCHANGED <<nm, doc, unitVars, readVars, writeVars, otherVars>>

\* Read's locals after an iteration of the loop; an error ends Read.
setReadState(st) ==
    /\ level' = st.level
    /\ descriptionLevel' = st.descriptionLevel
    /\ propertyLevel' = st.propertyLevel
    /\ propertyElement' = st.propertyElement
    /\ p' = st.p
    /\ err' = st.err
    /\ pc' = IF st.err THEN "done" ELSE "read"

\* dec.Token() returns a token of the given kinds.
nextToken(kinds) ==
    /\ pc = "read"
    /\ pos < Len(doc)
    /\ doc[pos + 1].k \in kinds

\* One iteration of Read's loop on a start element.
ReadStartElement ==
    /\ nextToken({"StartElement"})
    /\ setReadState(ReadStep(readState, doc[pos + 1]))
    /\ pos' = pos + 1
    /\ UNCHANGED <<nameVars, otherVars, doc, unitVars, writeVars>>

\* One iteration of Read's loop on an end element.
ReadEndElement ==
    /\ nextToken({"EndElement"})
    /\ setReadState(ReadStep(readState, doc[pos + 1]))
    /\ pos' = pos + 1
    /\ UNCHANGED <<nameVars, otherVars, doc, unitVars, writeVars>>

\* One iteration of Read's loop on any other token.
ReadOtherToken ==
    /\ nextToken({"CharData", "ProcInst"})
    /\ setReadState(ReadStep(readState, doc[pos + 1]))
    /\ pos' = pos + 1
    /\ UNCHANGED <<nameVars, otherVars, doc, unitVars, writeVars>>

\* dec.Token() returns io.EOF: Read returns the packet.
ReadEOF ==
    /\ pc = "read"
    /\ pos = Len(doc)
    /\ pc' = "encode"
    /\ run' = 1
    /\ UNCHANGED <<nameVars, otherVars, doc, unitVars, readVars, nsTodo, nsToPrefix, prefixToNS,
                   out, out1, fatal, p2, err2>>

\* newEncoder up to the end of its first loop.
NewEncoder ==
    /\ pc = "encode"
    /\ LET nsUsed == nsUsedOf(p)
           m      == defaultsOf(nsUsed)
       IN /\ nsToPrefix' = m
          /\ prefixToNS' = invertDefaults(m)
          /\ nsTodo' = nsUsed \ DOMAIN m
    /\ pc' = "prefix"
    /\ UNCHANGED <<nameVars, otherVars, doc, unitVars, readVars, run, out, out1, fatal, p2, err2>>

\* One iteration of newEncoder's second loop: the map nsUsed is ranged over
\* in an order the Go runtime chooses.
AssignPrefix ==
    /\ pc = "prefix"
    /\ \E ns \in nsTodo :
        LET pfx == getPrefix(nsToPrefix, ns) IN
        /\ nsToPrefix' = MapSet(nsToPrefix, ns, pfx)
        /\ prefixToNS' = MapSet(prefixToNS, pfx, ns)
        /\ nsTodo' = nsTodo \ {ns}
    /\ UNCHANGED <<nameVars, otherVars, doc, unitVars, readVars, run, out, out1, fatal, p2, err2, pc>>

\* The tokens reach EncodeToken unless makeName panics; after the first
\* Write the packet is written once more, after the second the text of the
\* first is read back.
emit(tokens) ==
    /\ out' = tokens
    /\ fatal' = writePanics(tokens)
    /\ out1' = IF run = 1 THEN tokens ELSE out1
    /\ run' = IF run = 1 /\ ~writePanics(tokens) THEN 2 ELSE run
    /\ pc' = IF writePanics(tokens) THEN "done"
             ELSE IF run = 1 THEN "encode" ELSE "decode"

\* The rest of newEncoder, the loop of Write over the properties, and Close.
WriteTokens ==
    /\ pc = "prefix"
    /\ nsTodo = {}
    /\ emit(writeTokens(nsToPrefix, p))
    /\ UNCHANGED <<nameVars, otherVars, doc, unitVars, readVars, nsTodo, nsToPrefix, prefixToNS, p2, err2>>

setReadBack(st) ==
    /\ p2' = st.p
    /\ err2' = st.err

\* Read applied to the text of the first Write.
ReadBack ==
    /\ pc = "decode"
    /\ setReadBack(ReadAll(decodeTokens(out1)))
    /\ pc' = "done"
    /\ UNCHANGED <<nameVars, otherVars, doc, unitVars, readVars, run, nsTodo, nsToPrefix, prefixToNS,
                   out, out1, fatal>>

Next ==
    \/ ReadStartElement
    \/ ReadEndElement
    \/ ReadOtherToken
    \/ ReadEOF
    \/ NewEncoder
    \/ AssignPrefix
    \/ WriteTokens
    \/ ReadBack

Spec == Init /\ [][Next]_vars

NextNames == Validate

SpecNames == InitNames /\ [][NextNames]_vars

\* An Encoder driven by a caller: the calls made so far are kept in hist,
\* each with the open tags and the closed flag it found, the number of
\* buffered bytes it found, and whether it returned an error.
MaxCalls == 3

nameA == Name(<<>>, <<"a">>)
nameNsB == Name(<<"u",":","/","n">>, <<"b">>)

EncTokens ==
    { StartElement(nameA, <<>>),
      StartElement(nameNsB, <<Attr(Name(<<"u",":","/","n">>, <<"k">>), <<"v","<">>)>>),
      StartElement(Name(<<>>, <<>>), <<>>),
      EmptyElement(nameA, <<Attr(Name(<<>>, <<"k">>), <<"v">>)>>),
      EndElement(nameA),
      EndElement(nameNsB),
      EndElement(Name(<<>>, <<"b">>)),
      EndElement(Name(<<>>, <<>>)),
      CharData(<<"x","&">>),
      CharData(<<>>),
      Comment(<<"c">>),
      Comment(<<"-","-",">">>),
      ProcInst(strXml, <<"v">>),
      ProcInst(<<"p","i">>, <<>>),
      ProcInst(<<"1">>, <<>>),
      Directive(<<"D"," ","a">>),
      Directive(<<"<">>),
      InvalidToken }

InitEnc ==
    /\ nm = NoName /\ vp = "unset" /\ vq = "unset"
    /\ doc = <<>>
    /\ IdleRead
    /\ IdleWrite
    /\ \E indent \in {<<>>, <<"\t">>}, broken \in BOOLEAN :
          enc = NewEncoder_printer(indent, broken)
    /\ hist = <<>> /\ calls = <<>> /\ table = defaultPrefix
    /\ IdleUnit
    /\ pc = "enc"

called(call, t, failed) ==
    [call |-> call, tok |-> t, failed |-> failed,
     tags |-> enc.tags, closed |-> enc.closed, buffered |-> Len(enc.buf)]

\* enc.EncodeToken(t)
EncEncodeToken ==
    /\ pc = "enc" /\ Len(hist) < MaxCalls
    /\ \E t \in EncTokens :
          /\ enc' = EncodeToken(enc, t)
          /\ hist' = Append(hist, called("EncodeToken", t, EncodeTokenFails(enc, t)))
    /\ UNCHANGED <<nameVars, doc, unitVars, readVars, writeVars, pc, calls, table>>

\* enc.Flush()
EncFlush ==
    /\ pc = "enc" /\ Len(hist) < MaxCalls
    /\ enc' = Flush(enc)
    /\ hist' = Append(hist, called("Flush", InvalidToken, FlushFails(enc)))
    /\ UNCHANGED <<nameVars, doc, unitVars, readVars, writeVars, pc, calls, table>>

\* enc.Close()
EncClose ==
    /\ pc = "enc" /\ Len(hist) < MaxCalls
    /\ enc' = Close(enc)
    /\ hist' = Append(hist, called("Close", InvalidToken, CloseFails(enc)))
    /\ UNCHANGED <<nameVars, doc, unitVars, readVars, writeVars, pc, calls, table>>

NextEnc ==
    \/ EncEncodeToken
    \/ EncFlush
    \/ EncClose

SpecEnc == InitEnc /\ [][NextEnc]_vars

\* Independent callers of Read and Write that run at the same time, each
\* on a document or a packet of its own; table is the package-level
\* defaultPrefix they share.
NumCallers == 2

PacketC(props) == Wrap(nameRDFRoot, <<>>, Wrap(nameRDFDescription, <<>>, props))

ConcDocs ==
    { PacketC(Lit(Name(nsT, strP), <<>>, strV)
              \o Emp(Name(nsA, strP), <<Attr(nameRDFResource, strURI)>>)),
      PacketC(Lit(Name(nsU, strP), <<Attr(nameXMLLang, strX)>>, strV)),
      Wrap(nameRDFRoot, <<>>,
           Emp(nameRDFDescription, <<Attr(nameRDFAbout, strX)>>)
           \o Emp(nameRDFDescription, <<Attr(nameRDFAbout, strY)>>)) }

ConcPackets == {ReadAll(d).p : d \in {d \in ConcDocs : ~ReadAll(d).err}}

\* A caller about to run Read on a document ...
readCaller(d) ==
    [kind |-> "Read", pc |-> "read", doc |-> d, pos |-> 0, st |-> ReadStart,
     pkt |-> NewPacket, nsTodo |-> {}, nsToPrefix |-> EmptyMap, order |-> <<>>,
     out |-> <<>>]

\* ... and a caller about to run Write on a packet.
writeCaller(pkt) ==
    [kind |-> "Write", pc |-> "encode", doc |-> <<>>, pos |-> 0, st |-> ReadStart,
     pkt |-> pkt, nsTodo |-> {}, nsToPrefix |-> EmptyMap, order |-> <<>>,
     out |-> <<>>]

Callers == {readCaller(d) : d \in ConcDocs} \cup {writeCaller(pkt) : pkt \in ConcPackets}

InitConc ==
    /\ nm = NoName /\ vp = "unset" /\ vq = "unset"
    /\ doc = <<>>
    /\ IdleRead
    /\ IdleWrite
    /\ enc = <<>> /\ hist = <<>>
    /\ calls \in [1..NumCallers -> Callers]
    /\ table = defaultPrefix
    /\ IdleUnit
    /\ pc = "conc"

\* One caller's iteration of Read's loop.
ConcReadToken(c) ==
    /\ calls[c].kind = "Read" /\ calls[c].pc = "read"
    /\ calls[c].pos < Len(calls[c].doc)
    /\ calls' = [calls EXCEPT
            ![c].st  = ReadStep(calls[c].st, calls[c].doc[calls[c].pos + 1]),
            ![c].pos = calls[c].pos + 1,
            ![c].pc  = IF ReadStep(calls[c].st, calls[c].doc[calls[c].pos + 1]).err
                       THEN "done" ELSE "read"]
    /\ UNCHANGED <<nameVars, doc, unitVars, readVars, writeVars, pc, enc, hist, table>>

\* One caller's Read returns at io.EOF.
ConcReadEOF(c) ==
    /\ calls[c].kind = "Read" /\ calls[c].pc = "read"
    /\ calls[c].pos = Len(calls[c].doc)
    /\ calls' = [calls EXCEPT ![c].pc = "done"]
    /\ UNCHANGED <<nameVars, doc, unitVars, readVars, writeVars, pc, enc, hist, table>>

\* One caller's newEncoder up to the end of its first loop.
ConcNewEncoder(c) ==
    /\ calls[c].kind = "Write" /\ calls[c].pc = "encode"
    /\ calls' = [calls EXCEPT
            ![c].nsToPrefix = defaultsFrom(table, nsUsedOf(calls[c].pkt)),
            ![c].nsTodo = nsUsedOf(calls[c].pkt)
                            \ DOMAIN defaultsFrom(table, nsUsedOf(calls[c].pkt)),
            ![c].pc = "prefix"]
    /\ table' = defaultPrefixAfter(table, nsUsedOf(calls[c].pkt))
    /\ UNCHANGED <<nameVars, doc, unitVars, readVars, writeVars, pc, enc, hist>>

\* One iteration of one caller's second loop of newEncoder.
ConcAssignPrefix(c) ==
    /\ calls[c].kind = "Write" /\ calls[c].pc = "prefix"
    /\ \E ns \in calls[c].nsTodo :
          calls' = [calls EXCEPT
            ![c].nsToPrefix = MapSet(calls[c].nsToPrefix, ns,
                                     getPrefix(calls[c].nsToPrefix, ns)),
            ![c].nsTodo = calls[c].nsTodo \ {ns},
            ![c].order = Append(calls[c].order, ns)]
    /\ UNCHANGED <<nameVars, doc, unitVars, readVars, writeVars, pc, enc, hist, table>>

\* The rest of one caller's Write.
ConcWriteTokens(c) ==
    /\ calls[c].kind = "Write" /\ calls[c].pc = "prefix"
    /\ calls[c].nsTodo = {}
    /\ calls' = [calls EXCEPT
            ![c].out = writeTokens(calls[c].nsToPrefix, calls[c].pkt),
            ![c].pc = "done"]
    /\ UNCHANGED <<nameVars, doc, unitVars, readVars, writeVars, pc, enc, hist, table>>

NextConc ==
    \E c \in 1..NumCallers :
        \/ ConcReadToken(c)
        \/ ConcReadEOF(c)
        \/ ConcNewEncoder(c)
        \/ ConcAssignPrefix(c)
        \/ ConcWriteTokens(c)

SpecConc == InitConc /\ [][NextConc]_vars

-----------------------------------------------------------------------------
(* Properties                                                              *)

\* Read has returned: a packet (the first Write is about to start) or an error.
readReturned == (pc = "encode" /\ run = 1) \/ err

\* Every name stored in the value tree passes the validator of its role.
RECURSIVE validTree(_)
validQualifiers(q) ==
    \A i \in 1..Len(q) : isValidQualifierName(q[i].Name) /\ validTree(q[i].Value)

validTree(v) ==
    /\ validQualifiers(v.Q)
    /\ v.t = "RawStruct" =>
          \A k \in DOMAIN v.Value : isValidPropertyName(k) /\ validTree(v.Value[k])
    /\ v.t = "RawArray" =>
          \A i \in 1..Len(v.Value) : validTree(v.Value[i])

\* C1: for every packet p that Read returns, reading back what Write wrote for
\* p gives a packet equal to p: the same About, the same property names and,
\* for each property, the same value tree with the same qualifier lists.
C1_RoundTrip ==
    (pc = "done" /\ ~err /\ ~fatal) => (~err2 /\ p2 = p)

\* C2: two Writes of the same packet pass the same tokens to the encoder (and
\* so write the same bytes), whatever the order in which each run ranges over
\* the map of the namespaces in use.
C2_SameOutputTwice ==
    (pc \in {"decode", "done"} /\ run = 2 /\ ~fatal) => out = out1

\* C3: when newEncoder has chosen the prefixes, distinct namespaces have
\* distinct prefixes, the RDF namespace has the prefix rdf and the XML
\* namespace has the prefix xml.
C3_PrefixesDistinct ==
    (pc = "prefix" /\ nsTodo = {}) =>
        /\ \A n1 \in DOMAIN nsToPrefix : \A n2 \in DOMAIN nsToPrefix :
              n1 # n2 => nsToPrefix[n1] # nsToPrefix[n2]
        /\ nsToPrefix[rdfNamespace] = <<"r","d","f">>
        /\ nsToPrefix[xmlNamespace] = <<"x","m","l">>

\* C4: in the packet Read builds, every key of Properties and every struct
\* field key satisfies isValidPropertyName and every qualifier name satisfies
\* isValidQualifierName, at every depth of every value tree.
C4_StoredNamesValid ==
    \A name \in DOMAIN p.Properties :
        isValidPropertyName(name) /\ validTree(p.Properties[name])

\* Read has returned a structure whose source had a field and an attribute
\* without namespace beside a field with a valid name.
C4_Witness ==
    /\ readReturned /\ ~err
    /\ Name(nsT, strS) \in DOMAIN p.Properties
    /\ p.Properties[Name(nsT, strS)].t = "RawStruct"
    /\ DOMAIN p.Properties[Name(nsT, strS)].Value = {Name(nsV, strF)}
    /\ \E i \in 1..Len(doc) : doc[i].name = Name(<<>>, strF)

\* C9: Write never reaches the panic "namespace not registered" in makeName
\* for a packet that Read returned.
C9_NoPanic == ~fatal

\* Both Writes finished for a packet with a struct field, a qualifier and a
\* property in three different namespaces.
C9_Witness ==
    /\ pc = "done" /\ run = 2 /\ ~fatal
    /\ {nsT, nsV, nsA} \subseteq DOMAIN nsToPrefix
    /\ \E name \in DOMAIN p.Properties :
          /\ p.Properties[name].t = "RawStruct"
          /\ \E k \in DOMAIN p.Properties[name].Value : k.Space # name.Space

\* C10: both validators reject a name with an empty namespace, an empty local
\* name, an RDF-namespace name other than rdf:type, or a namespace that does
\* not parse as a URI; isValidPropertyName rejects every name of the XML
\* namespace; both accept rdf:type; xml:lang is accepted by
\* isValidQualifierName only.
C10_ValidatorRules ==
    vp # "unset" =>
        /\ (\/ nm.Space = <<>>
            \/ nm.Local = <<>>
            \/ (nm.Space = rdfNamespace /\ nm # nameRDFType)
            \/ urlParseFails(nm.Space)) => (vp = "reject" /\ vq = "reject")
        /\ nm.Space = xmlNamespace => vp = "reject"
        /\ nm = nameRDFType => (vp = "accept" /\ vq = "accept")
        /\ nm = nameXMLLang => (vp = "reject" /\ vq = "accept")
        /\ (nm.Space = xmlNamespace /\ nm # nameXMLLang) => vq = "reject"

\* The validators have judged xml:lang.
C10_Witness == nm = nameXMLLang /\ vp = "reject" /\ vq = "accept"

-----------------------------------------------------------------------------
(* The input seen as Read sees it                                          *)

\* For each token, the ordinal of the top-level property element it belongs
\* to (counting from 1 in document order; the end element included), or 0;
\* found with the levels Read keeps.
RECURSIVE propertyOrdinalsFrom(_, _, _, _)
ordinalStep(tokens, i, st, st2, n) ==
    IF st2.err THEN [j \in 1..(Len(tokens) - i + 1) |-> 0]
    ELSE IF st.propertyLevel < 0 /\ st2.propertyLevel >= 0
    THEN <<n + 1>> \o propertyOrdinalsFrom(tokens, i + 1, st2, n + 1)
    ELSE IF st.propertyLevel >= 0
    THEN <<n>> \o propertyOrdinalsFrom(tokens, i + 1, st2, n)
    ELSE <<0>> \o propertyOrdinalsFrom(tokens, i + 1, st2, n)

propertyOrdinalsFrom(tokens, i, st, n) ==
    IF i > Len(tokens) THEN <<>>
    ELSE ordinalStep(tokens, i, st, ReadStep(st, tokens[i]), n)

propertyOrdinals(tokens) == propertyOrdinalsFrom(tokens, 1, ReadStart, 0)

\* The tokens at the positions in keep, in order.
RECURSIVE selectTokens(_, _, _)
selectTokens(tokens, keep, i) ==
    IF i > Len(tokens) THEN <<>>
    ELSE (IF i \in keep THEN <<tokens[i]>> ELSE <<>>) \o selectTokens(tokens, keep, i + 1)

\* The name of the property element with ordinal k.
propertyName(tokens, ords, k) ==
    tokens[CHOOSE i \in 1..Len(tokens) :
              ords[i] = k /\ \A j \in 1..(i - 1) : ords[j] # k].name

numProperties(ords) == Cardinality({ords[i] : i \in 1..Len(ords)} \ {0})

\* The positions of the rdf:Description start elements that Read takes as
\* subjects, and the values of their rdf:about attributes in document order.
RECURSIVE subjectsFrom(_, _, _)
subjectsFrom(tokens, i, st) ==
    IF i > Len(tokens) THEN {}
    ELSE (IF /\ tokens[i].k = "StartElement"
             /\ tokens[i].name = nameRDFDescription
             /\ st.descriptionLevel < 0
             /\ st.level > 0
          THEN {i} ELSE {})
         \cup subjectsFrom(tokens, i + 1,
                 ReadStep([st EXCEPT !.p = NewPacket, !.err = FALSE], tokens[i]))

subjects(tokens) == subjectsFrom(tokens, 1, ReadStart)

RECURSIVE aboutValuesFrom(_, _, _)
aboutValuesFrom(tokens, subj, i) ==
    IF i > Len(tokens) THEN <<>>
    ELSE (IF i \in subj
          THEN LET sel == SelectSeq(tokens[i].attr, LAMBDA a : a.Name = nameRDFAbout)
               IN [j \in 1..Len(sel) |-> sel[j].Value]
          ELSE <<>>)
         \o aboutValuesFrom(tokens, subj, i + 1)

aboutValues(tokens) == aboutValuesFrom(tokens, subjects(tokens), 1)

\* The input without the top-level property elements whose name fails
\* isValidPropertyName, and without the attributes of the subject
\* rdf:Description elements whose name fails it.
withoutInvalidAttrs(t) ==
    [t EXCEPT !.attr = SelectSeq(@, LAMBDA a :
                          a.Name = nameRDFAbout \/ isValidPropertyName(a.Name))]

stripWith(tokens, ords, subj) ==
    LET keep == {i \in 1..Len(tokens) :
                    ords[i] = 0 \/ isValidPropertyName(propertyName(tokens, ords, ords[i]))}
        clean == [i \in 1..Len(tokens) |->
                    IF i \in subj THEN withoutInvalidAttrs(tokens[i]) ELSE tokens[i]]
    IN selectTokens(clean, keep, 1)

withoutInvalidNames(tokens) ==
    stripWith(tokens, propertyOrdinals(tokens), subjects(tokens))

\* The top-level property element with ordinal k holds an element or an
\* attribute whose name fails both validators.
holdsInvalidName(tokens, ords, k) ==
    \E i \in 1..Len(tokens) :
        /\ ords[i] = k
        /\ tokens[i].k = "StartElement"
        /\ \/ ~isValidPropertyName(tokens[i].name) /\ ~isValidQualifierName(tokens[i].name)
           \/ \E j \in 1..Len(tokens[i].attr) :
                 /\ ~isValidPropertyName(tokens[i].attr[j].Name)
                 /\ ~isValidQualifierName(tokens[i].attr[j].Name)

\* The input without the property element with ordinal k.
withoutProperty(tokens, ords, k) ==
    selectTokens(tokens, {i \in 1..Len(tokens) : ords[i] # k}, 1)

\* Packets a and b have the same properties apart from the one called name.
sameExcept(a, b, name) ==
    /\ DOMAIN a.Properties \ {name} = DOMAIN b.Properties \ {name}
    /\ \A n \in DOMAIN a.Properties \ {name} : a.Properties[n] = b.Properties[n]

\* Character data inside a property element that stands next to an element:
\* directly after an end element or directly before a start element.
strayCharData(tokens, ords) ==
    {i \in 1..Len(tokens) :
        /\ tokens[i].k = "CharData"
        /\ ords[i] > 0
        /\ \/ i > 1 /\ tokens[i-1].k = "EndElement" /\ ords[i-1] = ords[i]
           \/ i < Len(tokens) /\ tokens[i+1].k = "StartElement" /\ ords[i+1] = ords[i]}

withoutStrayCharData(tokens, ords) ==
    selectTokens(tokens, (1..Len(tokens)) \ strayCharData(tokens, ords), 1)

-----------------------------------------------------------------------------
(* Properties of Read                                                      *)

\* An rdf:about value that Read records or compares: not empty, parsed by
\* url.Parse, and with a non-empty string form.
usableAbout(v) == v # <<>> /\ ~urlParseFails(v) /\ urlString(v) # <<>>

\* Two of the values are usable and parse to different URLs.
aboutsConflict(av) ==
    \E i \in 1..Len(av) : \E j \in 1..Len(av) :
        usableAbout(av[i]) /\ usableAbout(av[j]) /\ urlString(av[i]) # urlString(av[j])

\* Two of the values are not identical.
aboutsDiffer(av) == \E i \in 1..Len(av) : \E j \in 1..Len(av) : av[i] # av[j]

\* C5 as stated: if two subject rdf:Description elements carry rdf:about
\* values that are not identical, Read returns an error.
C5_DifferentAboutFails ==
    readReturned => (aboutsDiffer(aboutValues(doc)) => err)

\* C5, amended: Read returns an error exactly when two rdf:about values of
\* subject rdf:Description elements are both non-empty, both parse as URLs
\* with a non-empty string form, and parse to different URLs; an empty or
\* unparseable rdf:about counts as absent.
C5_ConflictingAboutFails ==
    readReturned => (err <=> aboutsConflict(aboutValues(doc)))

\* Read has returned an error for the rdf:about values x and y.
C5_Witness ==
    /\ err /\ pc = "done"
    /\ aboutValues(doc) = <<strX, strY>>

\* The next token is the end element of the top-level property element
\* being recorded.
closesProperty ==
    /\ pc = "read"
    /\ pos < Len(doc)
    /\ doc[pos + 1].k = "EndElement"
    /\ level = propertyLevel

\* The start element carries rdf:parseType with a value other than "Resource".
carriesOtherParseType(start) ==
    \E i \in 1..Len(start.attr) :
        start.attr[i].Name = nameRDFParseType /\ start.attr[i].Value # strResource

\* ... and that attribute is the first one other than xml:lang and rdf:ID,
\* among at most three attributes.
otherParseTypeDecides(start) ==
    /\ Len(start.attr) <= 3
    /\ \E i \in 1..Len(start.attr) :
          /\ start.attr[i].Name = nameRDFParseType
          /\ start.attr[i].Value # strResource
          /\ \A j \in 1..(i - 1) : start.attr[j].Name \in {nameXMLLang, nameRDFID}

\* C6 as stated: the end of a property element that carries rdf:parseType
\* with a value other than "Resource" stores nothing in the packet and
\* raises no error.
C6_OtherParseTypeAbsent ==
    [][(closesProperty /\ carriesOtherParseType(propertyElement[1]))
          => (p' = p /\ ~err')]_vars

\* C6, amended: the end of a property element with at most three attributes
\* whose first attribute other than xml:lang and rdf:ID is rdf:parseType with
\* a value other than "Resource" stores nothing in the packet and raises no
\* error.
C6_DecidingParseTypeAbsent ==
    [][(closesProperty /\ otherParseTypeDecides(propertyElement[1]))
          => (p' = p /\ ~err')]_vars

\* Read has just passed the end of such a property element with a valid
\* name, and the packet has no property of that name.
C6_Witness ==
    /\ pc = "read" /\ pos > 0
    /\ doc[pos].k = "EndElement"
    /\ propertyLevel = -1 /\ level = descriptionLevel
    /\ propertyElement # <<>>
    /\ otherParseTypeDecides(propertyElement[1])
    /\ isValidPropertyName(propertyElement[1].name)
    /\ propertyElement[1].name \notin DOMAIN p.Properties

\* Read's result equals the result ref for another input.
sameResult(ref) == err = ref.err /\ (~err => p = ref.p)

\* Every top-level property element that holds an invalid name leaves the
\* other properties as they are without it.
othersUntouched(ords) ==
    \A k \in 1..numProperties(ords) :
        holdsInvalidName(doc, ords, k) =>
            sameExcept(p, ReadAll(withoutProperty(doc, ords, k)).p,
                       propertyName(doc, ords, k))

\* C7: names that fail validation never make Read fail; Read returns what it
\* returns for the input without the invalid-named top-level property
\* elements and Description attributes, and a property element holding an
\* invalid-named field, qualifier or attribute leaves the values of the other
\* properties as they are without it.
C7_InvalidNamesOmitted ==
    readReturned =>
        /\ sameResult(ReadAll(withoutInvalidNames(doc)))
        /\ ~err => othersUntouched(propertyOrdinals(doc))

someInvalidProperty(ords) ==
    \E k \in 1..numProperties(ords) : ~isValidPropertyName(propertyName(doc, ords, k))

\* Read has returned a packet with a property for an input that also had a
\* top-level property element with an invalid name.
C7_Witness ==
    /\ readReturned /\ ~err
    /\ DOMAIN p.Properties # {}
    /\ someInvalidProperty(propertyOrdinals(doc))

\* C8 as stated: character data standing where only element children are
\* allowed makes Read return an error.
C8_StrayTextFails ==
    readReturned => (strayCharData(doc, propertyOrdinals(doc)) # {} => err)

\* C8, amended: character data standing next to the element children of a
\* property element is skipped: Read returns what it returns for the input
\* without that character data, and no error on its account.
C8_StrayTextSkipped ==
    readReturned =>
        sameResult(ReadAll(withoutStrayCharData(doc, propertyOrdinals(doc))))

\* Read has returned an array of two items for an input with character data
\* between the items.
C8_Witness ==
    /\ readReturned /\ ~err
    /\ strayCharData(doc, propertyOrdinals(doc)) # {}
    /\ \E name \in DOMAIN p.Properties :
          p.Properties[name].t = "RawArray" /\ Len(p.Properties[name].Value) = 2

-----------------------------------------------------------------------------
(* Properties of the validators, continued                                 *)

\* C11: for every name whose namespace is not the XML namespace,
\* isValidQualifierName gives the verdict isValidPropertyName gives.
C11_QualifierSameAsProperty ==
    (vp # "unset" /\ nm.Space # xmlNamespace) => vq = vp

-----------------------------------------------------------------------------
(* Properties of the written packet                                        *)

\* The number of elements open before token i of a token sequence.
depthAt(tokens, i) ==
    Cardinality({j \in 1..(i - 1) : tokens[j].k = "StartElement"})
        - Cardinality({j \in 1..(i - 1) : tokens[j].k = "EndElement"})

\* The positions of the children of the root element.
subjectElements(tokens) ==
    {i \in 1..Len(tokens) :
        tokens[i].k \in {"StartElement", "EmptyElement"} /\ depthAt(tokens, i) = 1}

\* Write has returned without a panic.
writeReturned == pc \in {"decode", "done"} /\ run = 2 /\ ~fatal

propertyPositions(tokens) ==
    SelectSeq([i \in 1..Len(tokens) |-> i],
              LAMBDA i : /\ tokens[i].k \in {"StartElement", "EmptyElement"}
                         /\ depthAt(tokens, i) = 2)

\* The position in out of the element written for the property of that name:
\* Write takes the properties in the order of their sorted names.
writtenAt(name) ==
    LET names == sortNames(DOMAIN p.Properties)
    IN  propertyPositions(out)[CHOOSE k \in 1..Len(names) : names[k] = name]

\* A name of the RDF namespace as it is written.
rdfName(local) == Name(<<>>, <<"r","d","f",":">> \o local)

hasAttr(tok, name, value) ==
    \E j \in 1..Len(tok.attr) : tok.attr[j] = Attr(name, value)

\* A token opens the rdf:parseType="Resource" form with an rdf:value child.
resourceFormAt(i) ==
    /\ out[i].k = "StartElement"
    /\ hasAttr(out[i], rdfName(nameRDFParseType.Local), strResource)
    /\ out[i + 1].k \in {"StartElement", "EmptyElement"}
    /\ out[i + 1].name = rdfName(nameRDFValue.Local)

plainText(v) == v.t = "Text" /\ Len(v.Q) = 0

\* Text{v, [{q, Text{x}}]} with q other than xml:lang.
onePlainQualifier(v) ==
    /\ v.t = "Text"
    /\ Len(v.Q) = 1
    /\ v.Q[1].Name # nameXMLLang
    /\ plainText(v.Q[1].Value)

\* C13 as stated: a Text with one plain-Text non-language qualifier is
\* written in the rdf:parseType="Resource" form, an rdf:value child first.
C13_PlainQualifierAsResource ==
    writeReturned =>
        \A name \in DOMAIN p.Properties :
            onePlainQualifier(p.Properties[name]) => resourceFormAt(writtenAt(name))

\* C13, amended: a Text with one plain-Text non-language qualifier is
\* written as one self-closing element with the qualifier and rdf:value as
\* attributes; a Text with a non-language qualifier and some qualifier that
\* is not a plain Text is written in the rdf:parseType="Resource" form with
\* an rdf:value child first. Neither has an rdf:Description child.
C13_PlainQualifierAsAttribute ==
    writeReturned =>
        \A name \in DOMAIN p.Properties :
            LET v == p.Properties[name]
                i == writtenAt(name)
            IN  /\ onePlainQualifier(v) =>
                      out[i] = EmptyElement(
                          makeName(nsToPrefix, name.Space, name.Local),
                          <<Attr(makeName(nsToPrefix, v.Q[1].Name.Space, v.Q[1].Name.Local),
                                 v.Q[1].Value.V),
                            Attr(rdfName(nameRDFValue.Local), v.V)>>)
                /\ (/\ v.t = "Text"
                    /\ \E j \in 1..Len(v.Q) : v.Q[j].Name # nameXMLLang
                    /\ \E j \in 1..Len(v.Q) : ~plainText(v.Q[j].Value))
                      => resourceFormAt(i)

\* A packet holding a Text with one plain-Text non-language qualifier has
\* been written.
C13_Witness ==
    /\ writeReturned
    /\ \E name \in DOMAIN p.Properties : onePlainQualifier(p.Properties[name])

\* A struct without non-language qualifiers, with at least one field, all
\* fields plain unqualified Text values.
simpleStruct(v) ==
    /\ v.t = "RawStruct"
    /\ \A j \in 1..Len(v.Q) : v.Q[j].Name = nameXMLLang
    /\ DOMAIN v.Value # {}
    /\ \A key \in DOMAIN v.Value : plainText(v.Value[key])

\* A struct that is empty or has a field that is not a plain unqualified Text.
compoundStruct(v) ==
    /\ v.t = "RawStruct"
    /\ (DOMAIN v.Value = {} \/ \E key \in DOMAIN v.Value : ~plainText(v.Value[key]))

\* The attributes of a token other than xml:lang.
otherThanLang(attr) == SelectSeq(attr, LAMBDA a : a.Name # nameXMLLang)

\* C14: a struct without non-language qualifiers whose fields are all plain
\* Text, at least one, is written as one self-closing element with exactly
\* the fields as attributes besides xml:lang; an empty struct and a struct
\* with a field that is not a plain Text are written as an element with
\* rdf:parseType="Resource".
C14_StructForms ==
    writeReturned =>
        \A name \in DOMAIN p.Properties :
            LET v == p.Properties[name]
                i == writtenAt(name)
            IN  /\ simpleStruct(v) =>
                      /\ out[i].k = "EmptyElement"
                      /\ out[i].name = makeName(nsToPrefix, name.Space, name.Local)
                      /\ Len(otherThanLang(out[i].attr)) = Cardinality(DOMAIN v.Value)
                      /\ \A key \in DOMAIN v.Value :
                            hasAttr(out[i], makeName(nsToPrefix, key.Space, key.Local),
                                    v.Value[key].V)
                /\ compoundStruct(v) =>
                      /\ out[i].k = "StartElement"
                      /\ out[i].name = makeName(nsToPrefix, name.Space, name.Local)
                      /\ hasAttr(out[i], rdfName(nameRDFParseType.Local), strResource)

\* A struct of plain Text fields has been written.
C14_Witness ==
    /\ writeReturned
    /\ \E name \in DOMAIN p.Properties : simpleStruct(p.Properties[name])

\* The calls to Close among the calls made so far, and the calls to
\* EncodeToken.
closeCalls == {i \in 1..Len(hist) : hist[i].call = "Close"}
encodeCalls == {i \in 1..Len(hist) : hist[i].call = "EncodeToken"}

\* C16 as stated: every call to Close that finds an element open returns an
\* error.
C16_EveryCloseUnclosedFails ==
    \A i \in closeCalls : Len(hist[i].tags) > 0 => hist[i].failed

\* C16, amended: the first call to Close returns an error if it finds an
\* element open, and every later call to Close returns nil.
C16_FirstCloseUnclosedFails ==
    \A i \in closeCalls :
        IF \E j \in closeCalls : j < i
        THEN ~hist[i].failed
        ELSE Len(hist[i].tags) > 0 => hist[i].failed

\* A first Close found an element open, on a writer that takes every write.
C16_Witness ==
    /\ ~enc.broken
    /\ \E i \in closeCalls :
          /\ Len(hist[i].tags) > 0
          /\ \A j \in closeCalls : j >= i

\* The end tag does not match: no element is open, or the innermost open
\* element has another name.
unmatchedEnd(i) ==
    /\ hist[i].call = "EncodeToken"
    /\ hist[i].tok.k = "EndElement"
    /\ \/ Len(hist[i].tags) = 0
       \/ hist[i].tags[Len(hist[i].tags)] # hist[i].tok.name

\* C17: EncodeToken returns an error for an EndElement that arrives when no
\* element is open or whose name differs from that of the innermost open
\* element.
C17_UnmatchedEndFails ==
    \A i \in 1..Len(hist) : unmatchedEnd(i) => hist[i].failed

\* An EndElement met an open element of the same local name in another name
\* space, before any Close.
C17_Witness ==
    \E i \in 1..Len(hist) :
        /\ unmatchedEnd(i)
        /\ ~hist[i].closed
        /\ Len(hist[i].tags) > 0
        /\ hist[i].tags[Len(hist[i].tags)].Local = hist[i].tok.name.Local

\* C18: every EncodeToken call made after a call to Close returns an error.
C18_EncodeAfterCloseFails ==
    \A i \in encodeCalls :
        (\E j \in closeCalls : j < i) => hist[i].failed

\* A token that an open Encoder takes was given to EncodeToken after a Close
\* that returned nil.
C18_Witness ==
    \E i \in encodeCalls :
        /\ hist[i].tok.k \in {"StartElement", "CharData", "Comment", "Directive"}
        /\ ~tokenRejected(NewEncoder_printer(<<>>, FALSE), hist[i].tok)
        /\ \E j \in closeCalls : j < i /\ ~hist[j].failed

\* C19: once a token has been encoded, EncodeToken returns an error for a
\* ProcInst with Target "xml", whatever calls to EncodeToken and Flush were
\* made in between.
C19_XmlDeclOnlyFirst ==
    \A i \in encodeCalls :
        (/\ hist[i].tok.k = "ProcInst"
         /\ hist[i].tok.name.Local = strXml
         /\ \E j \in encodeCalls : j < i /\ ~hist[j].failed)
            => hist[i].failed

\* The property element is decoded as a qualified value through an rdf:value
\* child element: it has rdf:parseType="Resource" and an rdf:value field, or
\* its first child is an rdf:Description without rdf:value attribute and
\* with an rdf:value field.
throughValueChild(start, tokens) ==
    LET children == getChildren(tokens)
    IN  \/ /\ getProperyElementType(start, tokens) = parseTypeResourcePropertyElt
           /\ firstNamed(children, nameRDFValue) > 0
        \/ /\ getProperyElementType(start, tokens) = resourcePropertyElt
           /\ Len(children) > 0
           /\ children[1].name = nameRDFDescription
           /\ firstAttrNamed(tokens[children[1].start].attr, nameRDFValue) = 0
           /\ firstNamed(getChildren(innerOf(tokens, children[1])), nameRDFValue) > 0

\* The qualifiers collected at the wrapper level of such an element: the
\* property's xml:lang, the valid-named attributes of the rdf:Description
\* and the valid-named fields beside rdf:value.
wrapperQualifiers(start, tokens) ==
    LET children == getChildren(tokens)
    IN  IF getProperyElementType(start, tokens) = parseTypeResourcePropertyElt
        THEN fieldQualifiersFrom(tokens, children, 1, langQualifiers(start.attr))
        ELSE fieldQualifiersFrom(
                innerOf(tokens, children[1]),
                getChildren(innerOf(tokens, children[1])), 1,
                langQualifiers(start.attr)
                    \o attrQualifiers(tokens[children[1].start].attr))

holdsQualifiers(v, qq) ==
    \A k \in 1..Len(qq) : \E j \in 1..Len(v.Q) : v.Q[j] = qq[k]

\* C20: when Read closes a property element with a valid name that is
\* decoded through an rdf:value child element, the value it stores holds
\* every qualifier collected at the wrapper level.
C20_WrapperQualifiersKept ==
    [][(/\ closesProperty
        /\ isValidPropertyName(propertyElement[1].name)
        /\ throughValueChild(propertyElement[1], Tail(propertyElement))
        /\ parsePropertyElement(propertyElement[1], Tail(propertyElement), <<>>) # Nil)
          => /\ propertyElement[1].name \in DOMAIN p'.Properties
             /\ holdsQualifiers(p'.Properties[propertyElement[1].name],
                                wrapperQualifiers(propertyElement[1], Tail(propertyElement)))]_vars

\* The prefixes a Write running alone settles on when its loop takes the
\* namespaces in the given order.
RECURSIVE assignInOrder(_, _)
assignInOrder(m, order) ==
    IF order = <<>> THEN m
    ELSE assignInOrder(MapSet(m, Head(order), getPrefix(m, Head(order))), Tail(order))

\* What a Write running alone passes to EncodeToken for that order.
serialWrite(pkt, order) ==
    writeTokens(assignInOrder(defaultsOf(nsUsedOf(pkt)), order), pkt)

\* The order is one a Write running alone can take: each namespace in use
\* without default prefix, once.
serialOrder(pkt, order) ==
    /\ {order[i] : i \in 1..Len(order)} = nsUsedOf(pkt) \ DOMAIN defaultPrefix
    /\ Len(order) = Cardinality(nsUsedOf(pkt) \ DOMAIN defaultPrefix)

-----------------------------------------------------------------------------
(* parsePropertyElement called on one property element                     *)

\* The largest number of attributes of the property element, and the
\* largest number of children of an array envelope.
MaxAttrs == 3
MaxItems == 2

strLang == <<"x">>

\* Attributes the decoder tells apart: the two it skips, rdf:nodeID,
\* rdf:datatype, the values of rdf:parseType, rdf:value, rdf:resource with
\* a URI and with a string url.Parse rejects, an attribute with a valid
\* name and one without namespace.
ElemAttrs ==
    { Attr(nameXMLLang, strLang), Attr(nameRDFID, strX), Attr(nameRDFNodeID, strY),
      Attr(nameRDFDataType, strX),
      parseTypeAttr(strResource), parseTypeAttr(strLiteral),
      parseTypeAttr(strCollection), parseTypeAttr(strX),
      Attr(nameRDFValue, strV),
      Attr(nameRDFResource, strURI), Attr(nameRDFResource, nsBad),
      Attr(Name(nsT, strQ), strOne), Attr(Name(<<>>, strQ), strTwo) }

\* An element carries no two attributes of the same name.
distinctNames(attr) ==
    \A i, j \in 1..Len(attr) : i # j => attr[i].Name # attr[j].Name

ElemAttrLists ==
    {attr \in UNION {[1..n -> ElemAttrs] : n \in 0..MaxAttrs} : distinctNames(attr)}

\* Nothing, character data, or one child element.
ElemContents ==
    { <<>>, <<CharData(strV)>>, Lit(Name(nsT, strF), <<>>, strOne) }

\* The child of a resource property element: rdf:Description or a typed
\* node, with attributes and fields of its own.
NodeNames == { nameRDFDescription, Name(nsV, strS), Name(nsBad, strS) }
NodeAttrs ==
    { <<>>, <<Attr(nameRDFValue, strV)>>, <<Attr(Name(nsT, strQ), strOne)>>,
      <<Attr(nameXMLLang, strLang)>> }
NodeFields ==
    { <<>>,
      Lit(Name(nsT, strF), <<>>, strOne),
      Lit(nameRDFValue, <<>>, strV) \o Lit(Name(nsT, strQ), <<>>, strTwo) }

NodeElems ==
    { Wrap(Name(nsT, strR), <<>>, Wrap(name, attr, fields)) :
        name \in NodeNames, attr \in NodeAttrs, fields \in NodeFields }

\* The children of an array envelope: items, an item that decodes to
\* absent, an element that is not rdf:li, and character data.
ItemPool ==
    { Lit(nameRDFLi, <<>>, strOne),
      Lit(nameRDFLi, <<>>, strTwo),
      Emp(nameRDFLi, <<parseTypeAttr(strLiteral)>>),
      Lit(Name(nsT, strX), <<>>, strV),
      <<CharData(strY)>> }

ItemSeqs == UNION {[1..n -> ItemPool] : n \in 0..MaxItems}

ArrayElems ==
    { Wrap(Name(nsT, strR), <<>>, Wrap(envelope, <<>>, Flatten(items))) :
        envelope \in {nameRDFBag, nameRDFSeq, nameRDFAlt}, items \in ItemSeqs }

ElemPool ==
    { Wrap(Name(nsT, strP), attr, content) :
        attr \in ElemAttrLists, content \in ElemContents }
    \cup NodeElems \cup ArrayElems

InitElem ==
    /\ nm = NoName /\ vp = "unset" /\ vq = "unset"
    /\ doc = <<>>
    /\ IdleRead
    /\ IdleWrite
    /\ IdleOther
    /\ elem \in ElemPool
    /\ eltType = -1 /\ eltValue = NotCalled /\ gp = <<>>
    /\ pc = "elem"

\* elem[1 : len(elem)-1] of the code: the tokens the element encloses.
enclosed(tokens) == SubSeq(tokens, 2, Len(tokens) - 1)

\* tp := getProperyElementType(start, tokens)
ElemGetType ==
    /\ pc = "elem"
    /\ eltType' = getProperyElementType(elem[1], enclosed(elem))
    /\ pc' = "parse"
    /\ UNCHANGED <<nameVars, doc, readVars, writeVars, otherVars, elem, eltValue, gp>>

\* val := parsePropertyElement(start, tokens, nil)
ElemParse ==
    /\ pc = "parse"
    /\ eltValue' = parsePropertyElement(elem[1], enclosed(elem), <<>>)
    /\ pc' = "done"
    /\ UNCHANGED <<nameVars, doc, readVars, writeVars, otherVars, elem, eltType, gp>>

NextElem ==
    \/ ElemGetType
    \/ ElemParse

SpecElem == InitElem /\ [][NextElem]_vars

-----------------------------------------------------------------------------
(* Properties of parsePropertyElement                                      *)

\* The attributes of the element under test.
elemAttr == elem[1].attr

elemHasAttr(name) == \E i \in 1..Len(elemAttr) : elemAttr[i].Name = name

\* The value of the attribute of that name (no name occurs twice).
elemAttrValue(name) ==
    elemAttr[CHOOSE i \in 1..Len(elemAttr) : elemAttr[i].Name = name].Value

\* parsePropertyElement has returned for an element taken as emptyPropertyElt.
parsedEmpty == pc = "done" /\ eltType = emptyPropertyElt

\* The names of the qualifiers of a value.
qualifierNames(v) == {v.Q[i].Name : i \in 1..Len(v.Q)}

\* The attributes other than the named one that become qualifiers.
otherQualifierNames(name) ==
    {elemAttr[i].Name : i \in {j \in 1..Len(elemAttr) :
        elemAttr[j].Name # name /\ isValidQualifierName(elemAttr[j].Name)}}

\* The attributes that become fields of a structure.
fieldAttrs ==
    {i \in 1..Len(elemAttr) :
        elemAttr[i].Name # nameXMLLang /\ isValidPropertyName(elemAttr[i].Name)}

onlySkippedAttrs ==
    \A i \in 1..Len(elemAttr) :
        elemAttr[i].Name \in {nameXMLLang, nameRDFID, nameRDFNodeID}

isQualifiedText ==
    /\ eltValue.t = "Text"
    /\ eltValue.V = elemAttrValue(nameRDFValue)
    /\ qualifierNames(eltValue) = otherQualifierNames(nameRDFValue)

isUri ==
    /\ eltValue.t = "URL"
    /\ eltValue.V = urlString(elemAttrValue(nameRDFResource))

isEmptyText == eltValue.t = "Text" /\ eltValue.V = <<>>

isAttrStruct ==
    /\ eltValue.t = "RawStruct"
    /\ DOMAIN eltValue.Value = {elemAttr[i].Name : i \in fieldAttrs}
    /\ \A i \in fieldAttrs :
          eltValue.Value[elemAttr[i].Name] = Text(elemAttr[i].Value, <<>>)

\* C21 as stated: an emptyPropertyElt decodes by the first case that applies:
\* an rdf:value attribute gives a qualified Text, also when rdf:resource is
\* present; else an rdf:resource attribute gives a Uri; else an element with
\* no attribute other than xml:lang, rdf:ID and rdf:nodeID gives an empty
\* Text; else the element gives a structure whose fields are its attributes
\* with valid names.
C21_EmptyPropertyPriority ==
    parsedEmpty =>
        IF elemHasAttr(nameRDFValue) THEN isQualifiedText
        ELSE IF elemHasAttr(nameRDFResource) THEN isUri
        ELSE IF onlySkippedAttrs THEN isEmptyText
        ELSE isAttrStruct

\* C21 amended: the same, where rdf:resource gives a Uri when its value
\* parses as a URL and no value when it does not.
C21_EmptyPropertyPriorityParsed ==
    parsedEmpty =>
        IF elemHasAttr(nameRDFValue) THEN isQualifiedText
        ELSE IF elemHasAttr(nameRDFResource)
        THEN IF urlParseFails(elemAttrValue(nameRDFResource))
             THEN eltValue = Nil
             ELSE isUri
        ELSE IF onlySkippedAttrs THEN isEmptyText
        ELSE isAttrStruct

\* An element with both rdf:value and rdf:resource has been decoded to a Text.
C21_Witness ==
    /\ parsedEmpty
    /\ elemHasAttr(nameRDFValue) /\ elemHasAttr(nameRDFResource)
    /\ eltValue.t = "Text"

\* getProperyElementType has returned for the element under test.
classified == pc \in {"parse", "done"}

\* The attributes that are neither xml:lang nor rdf:ID, by position.
decidingAttrs ==
    {i \in 1..Len(elemAttr) : elemAttr[i].Name \notin {nameXMLLang, nameRDFID}}

\* The first of them in the order of the document.
firstDeciding == CHOOSE i \in decidingAttrs : \A j \in decidingAttrs : i <= j

\* The production an attribute selects.
selectedBy(a) ==
    IF a.Name = nameRDFDataType THEN literalPropertyElt
    ELSE IF a.Name = nameRDFParseType THEN
         CASE a.Value = strResource   -> parseTypeResourcePropertyElt
           [] a.Value = strLiteral    -> parseTypeLiteralPropertyElt
           [] a.Value = strCollection -> parseTypeCollectionPropertyElt
           [] OTHER                   -> parseTypeOtherPropertyElt
    ELSE emptyPropertyElt

permutationsOf(attr) ==
    {[i \in 1..Len(attr) |-> attr[f[i]]] :
        f \in {g \in [1..Len(attr) -> 1..Len(attr)] :
                 \A i, j \in 1..Len(attr) : i # j => g[i] # g[j]}}

\* C26: getProperyElementType returns the same production for every
\* permutation of the attribute list, with the same enclosed tokens.
C26_OrderIndependent ==
    classified =>
        \A attr \in permutationsOf(elemAttr) :
            getProperyElementType(StartElement(elem[1].name, attr), enclosed(elem)) = eltType

\* The first child element of the element under test, when it has one.
elemChildren == getChildren(enclosed(elem))
nodeStart == enclosed(elem)[elemChildren[1].start]
nodeInner == innerOf(enclosed(elem), elemChildren[1])

\* parsePropertyElement has returned for a resource property element whose
\* child is a typed node.
parsedTypedNode ==
    /\ pc = "done"
    /\ eltType = resourcePropertyElt
    /\ elemChildren # <<>>
    /\ nodeStart.name \notin {nameRDFDescription, nameRDFBag, nameRDFSeq, nameRDFAlt}

\* The rdf:type qualifier of a typed node of that name.
typeQualifier(name) ==
    Qualifier(nameRDFType, URL(urlString(name.Space \o name.Local), <<>>))

\* C23: the value of a typed node is the value the rdf:Description case
\* yields for the attributes and the fields of the node, with the rdf:type
\* qualifier made of its namespace and local name (after the xml:lang
\* qualifier of the property element, which both cases keep).
C23_TypedNodeAsDescription ==
    parsedTypedNode =>
        eltValue = parseDescription(nodeStart, nodeInner,
                        langQualifiers(elemAttr) \o <<typeQualifier(nodeStart.name)>>)

\* parsePropertyElement has returned for a resource property element whose
\* child is an array envelope.
parsedArray ==
    /\ pc = "done"
    /\ eltType = resourcePropertyElt
    /\ elemChildren # <<>>
    /\ nodeStart.name \in {nameRDFBag, nameRDFSeq, nameRDFAlt}

\* The rdf:li children of the envelope, in the order of the document.
liChildren == SelectSeq(getChildren(nodeInner), LAMBDA c : c.name = nameRDFLi)

\* C24: the items of the array are the values of the rdf:li children of the
\* envelope that decode to a value, in the order of the document, and
\* nothing else.
C24_ItemsFromLi ==
    parsedArray =>
        /\ eltValue.t = "RawArray"
        /\ eltValue.Value = itemValuesFrom(nodeInner, liChildren, 1, <<>>)

-----------------------------------------------------------------------------
(* Write called on a packet built by the caller                            *)

\* The largest number of qualifiers of a value.
MaxQuals == 2

\* The language, a plain text, a URI and a qualified text as qualifiers.
QualPool ==
    { Qualifier(nameXMLLang, Text(strLang, <<>>)),
      Qualifier(Name(nsT, strQ), Text(strOne, <<>>)),
      Qualifier(Name(nsU, strR), URL(strURI, <<>>)),
      Qualifier(Name(nsT, strR),
                Text(strTwo, <<Qualifier(Name(nsT, strQ), Text(strOne, <<>>))>>)) }

QualLists ==
    {q \in UNION {[1..n -> QualPool] : n \in 0..MaxQuals} : distinctNames(q)}

TextValues == {Text(v, q) : v \in {strV, <<>>}, q \in QualLists}

URLValues == {URL(strURI, q) : q \in QualLists}

\* Values of fields and items: simple values, a qualified text, structures
\* and arrays.
InnerValues ==
    { Text(strV, <<>>),
      Text(strV, <<Qualifier(nameXMLLang, Text(strLang, <<>>))>>),
      Text(strV, <<Qualifier(Name(nsT, strQ), Text(strOne, <<>>))>>),
      URL(strURI, <<>>),
      RawStruct(EmptyMap, <<>>),
      RawStruct(MapSet(EmptyMap, Name(nsT, strF), Text(strOne, <<>>)), <<>>),
      RawArray(<<>>, Alternative, <<>>),
      RawArray(<<Text(strOne, <<>>)>>, Ordered,
               <<Qualifier(Name(nsT, strQ), Text(strOne, <<>>))>>) }

\* The qualifier lists of structures and arrays.
OuterQuals ==
    { <<>>,
      <<Qualifier(nameXMLLang, Text(strLang, <<>>))>>,
      <<Qualifier(Name(nsT, strQ), Text(strOne, <<>>))>> }

FieldMaps ==
    {EmptyMap}
    \cup {MapSet(EmptyMap, Name(nsT, strF), v) : v \in InnerValues}
    \cup {MapSet(MapSet(EmptyMap, Name(nsT, strF), v), Name(nsV, strF), w) :
            v \in InnerValues, w \in InnerValues}

StructValues == {RawStruct(f, q) : f \in FieldMaps, q \in OuterQuals}

ArrayValues ==
    {RawArray(items, kind, q) :
        items \in UNION {[1..n -> InnerValues] : n \in 0..MaxItems},
        kind \in {Unordered, Ordered, Alternative},
        q \in OuterQuals}

ValuePool == TextValues \cup URLValues \cup StructValues \cup ArrayValues

\* p := xmp.NewPacket(); p.Properties[name] = value
InitValue ==
    /\ nm = NoName /\ vp = "unset" /\ vq = "unset"
    /\ doc = <<>>
    /\ pos = 0 /\ level = 0 /\ descriptionLevel = -1 /\ propertyLevel = -1
    /\ propertyElement = <<>> /\ err = FALSE
    /\ \E value \in ValuePool :
          p = [NewPacket EXCEPT !.Properties = MapSet(EmptyMap, Name(nsT, strP), value)]
    /\ run = 1 /\ nsTodo = {} /\ nsToPrefix = EmptyMap /\ prefixToNS = EmptyMap
    /\ out = <<>> /\ out1 = <<>> /\ fatal = FALSE /\ p2 = NoPacket /\ err2 = FALSE
    /\ IdleOther
    /\ IdleUnit
    /\ pc = "encode"

NextValue ==
    \/ NewEncoder
    \/ AssignPrefix
    \/ WriteTokens
    \/ ReadBack

SpecValue == InitValue /\ [][NextValue]_vars

-----------------------------------------------------------------------------
(* Properties of the tokens written for a value                            *)

\* The name of a property, field or qualifier as it is written.
writtenName(name) == makeName(nsToPrefix, name.Space, name.Local)

\* The qualifiers other than xml:lang.
nonLangQualifiers(v) == SelectSeq(v.Q, LAMBDA q : q.Name # nameXMLLang)

\* The child elements of the element that starts at token i of out, by
\* position.
childPositions(i) ==
    SelectSeq([j \in 1..Len(out) |-> j],
              LAMBDA j : /\ j > i
                         /\ out[j].k \in {"StartElement", "EmptyElement"}
                         /\ depthAt(out, j) = depthAt(out, i) + 1
                         /\ \A k \in (i + 1)..j : depthAt(out, k) > depthAt(out, i))

\* option 1: <name xml:lang="...">text</name>
plainFormAt(i, name, v) ==
    /\ out[i].k = "StartElement"
    /\ out[i].name = writtenName(name)
    /\ otherThanLang(out[i].attr) = <<>>
    /\ \A j \in 1..Len(v.Q) : hasAttr(out[i], nameXMLLang, v.Q[j].Value.V)
    /\ Len(out[i].attr) = Len(v.Q)
    /\ out[i + 1] = CharData(v.V)
    /\ out[i + 2] = EndElement(writtenName(name))

\* option 5: <name q="..." rdf:value="text"/>
compactFormAt(i, name, v) ==
    /\ out[i].k = "EmptyElement"
    /\ out[i].name = writtenName(name)
    /\ out[i].attr =
          [j \in 1..Len(v.Q) |-> Attr(writtenName(v.Q[j].Name), v.Q[j].Value.V)]
              \o <<Attr(rdfName(nameRDFValue.Local), v.V)>>

\* option 4: <name rdf:parseType="Resource"><rdf:value>text</rdf:value>
\* qualifiers </name>
resourceTextFormAt(i, name, v) ==
    /\ out[i].k = "StartElement"
    /\ out[i].name = writtenName(name)
    /\ hasAttr(out[i], rdfName(nameRDFParseType.Local), strResource)
    /\ out[i + 1] = StartElement(rdfName(nameRDFValue.Local), <<>>)
    /\ out[i + 2] = CharData(v.V)
    /\ out[i + 3] = EndElement(rdfName(nameRDFValue.Local))
    /\ LET children == childPositions(i)
           quals    == nonLangQualifiers(v)
       IN  /\ Len(children) = 1 + Len(quals)
           /\ children[1] = i + 1
           /\ \A k \in 1..Len(quals) :
                 out[children[k + 1]].name = writtenName(quals[k].Name)

\* C25: a Text without qualifier other than xml:lang is written as a plain
\* element with the xml:lang attribute, if any, and the text as character
\* data; else, if every qualifier is a plain unqualified Text, as one
\* self-closing element with each qualifier and rdf:value as attributes;
\* else as an element with rdf:parseType="Resource" holding an rdf:value
\* child followed by one element per qualifier other than xml:lang.
C25_TextForms ==
    writeReturned =>
        \A name \in DOMAIN p.Properties :
            LET v == p.Properties[name]
                i == writtenAt(name)
            IN  v.t = "Text" =>
                    IF nonLangQualifiers(v) = <<>> THEN plainFormAt(i, name, v)
                    ELSE IF \A j \in 1..Len(v.Q) : plainText(v.Q[j].Value)
                    THEN compactFormAt(i, name, v)
                    ELSE resourceTextFormAt(i, name, v)

\* A Text with xml:lang and a qualifier that is not a plain Text has been
\* written.
C25_Witness ==
    /\ writeReturned
    /\ \E name \in DOMAIN p.Properties :
          LET v == p.Properties[name] IN
          /\ v.t = "Text"
          /\ Len(v.Q) = 2
          /\ v.Q[1].Name = nameXMLLang
          /\ ~plainText(v.Q[2].Value)
          /\ out[writtenAt(name)].k = "StartElement"

\* The tags open after the tokens from i on, as the token writer keeps
\* them: a StartElement opens its name, an EndElement closes the innermost
\* open tag if it has its name and is refused otherwise.
RECURSIVE openTagsFrom(_, _, _)
openTagsFrom(tokens, i, pr) ==
    IF i > Len(tokens) \/ pr.refused THEN pr
    ELSE LET t == tokens[i] IN
         IF t.k = "StartElement"
         THEN openTagsFrom(tokens, i + 1, [pr EXCEPT !.tags = Append(@, t.name)])
         ELSE IF t.k = "EndElement"
         THEN IF writeEndFails(pr, t.name)
              THEN [pr EXCEPT !.refused = TRUE]
              ELSE openTagsFrom(tokens, i + 1,
                       [pr EXCEPT !.tags = SubSeq(@, 1, Len(@) - 1)])
         ELSE openTagsFrom(tokens, i + 1, pr)

openTags(tokens) == openTagsFrom(tokens, 1, [tags |-> <<>>, refused |-> FALSE])

\* C28: the tokens Write passes to the token writer are well nested: no
\* EndElement is refused as unmatched and no tag is open at Close.
C28_WellNested ==
    (pc \in {"encode", "decode", "done"} /\ out # <<>> /\ ~fatal) =>
        /\ ~openTags(out).refused
        /\ openTags(out).tags = <<>>

\* An array with a qualifier, holding an array with a qualifier and a
\* structure, has been written.
C28_Witness ==
    /\ writeReturned
    /\ \E name \in DOMAIN p.Properties :
          LET v == p.Properties[name] IN
          /\ v.t = "RawArray" /\ v.Kind = Unordered
          /\ Len(v.Q) = 1 /\ v.Q[1].Name # nameXMLLang
          /\ Len(v.Value) = 2
          /\ v.Value[1].t = "RawArray" /\ Len(v.Value[1].Q) = 1
          /\ v.Value[2].t = "RawStruct"

-----------------------------------------------------------------------------
(* Properties of Read's loop                                               *)

\* C27: after every iteration of Read's loop, level is not negative, and
\* while a property element is being recorded (propertyLevel >= 0) the
\* levels are ordered 0 < descriptionLevel < propertyLevel <= level and the
\* recorded tokens begin with the start tag of the property and leave open
\* exactly the elements from the property down to the current level.
C27_LevelsOrdered ==
    /\ level >= 0
    /\ propertyLevel >= 0 =>
          /\ 0 < descriptionLevel
          /\ descriptionLevel < propertyLevel
          /\ propertyLevel <= level
          /\ propertyElement # <<>>
          /\ propertyElement[1].k = "StartElement"
          /\ depthAt(propertyElement, Len(propertyElement) + 1) = level - propertyLevel + 1

\* Read is inside an element nested in a property element.
C27_Witness ==
    /\ pc = "read"
    /\ propertyLevel >= 0
    /\ level > propertyLevel
    /\ Len(propertyElement) >= 3

\* The positions of the tokens from the start tag to the end tag of some
\* rdf:RDF element, in a well-nested stream: open counts the elements open
\* since the start tag of the outermost rdf:RDF.
RECURSIVE insideFrom(_, _, _)
insideFrom(tokens, i, open) ==
    IF i > Len(tokens) THEN {}
    ELSE LET t == tokens[i] IN
         IF t.k = "StartElement"
         THEN IF open > 0 \/ t.name = nameRDFRoot
              THEN {i} \cup insideFrom(tokens, i + 1, open + 1)
              ELSE insideFrom(tokens, i + 1, open)
         ELSE IF t.k = "EndElement"
         THEN IF open > 0
              THEN {i} \cup insideFrom(tokens, i + 1, open - 1)
              ELSE insideFrom(tokens, i + 1, open)
         ELSE IF open > 0
              THEN {i} \cup insideFrom(tokens, i + 1, open)
              ELSE insideFrom(tokens, i + 1, open)

insideRDF(tokens) == insideFrom(tokens, 1, 0)

\* The next iteration of the loop takes a token outside every rdf:RDF.
readsOutside ==
    /\ pc = "read"
    /\ pos < Len(doc)
    /\ (pos + 1) \notin insideRDF(doc)

\* C29: a token outside every rdf:RDF element leaves the three counters and
\* the packet as they are, and Read returns what it returns for the stream
\* without these tokens.
C29_OutsideIgnored ==
    /\ [](readReturned => sameResult(ReadAll(selectTokens(doc, insideRDF(doc), 1))))
    /\ [][readsOutside =>
            UNCHANGED <<level, descriptionLevel, propertyLevel, p, err>>]_vars

\* Read has returned a packet for a stream with an rdf:Description outside
\* rdf:RDF that has attributes and a child element.
C29_Witness ==
    /\ readReturned /\ ~err
    /\ DOMAIN p.Properties # {}
    /\ \E i \in 1..Len(doc) :
          /\ i \notin insideRDF(doc)
          /\ doc[i].k = "StartElement"
          /\ doc[i].name = nameRDFDescription
          /\ Len(doc[i].attr) = 2
          /\ doc[i + 1].k = "StartElement"

-----------------------------------------------------------------------------
(* getPrefix, statement by statement                                       *)

\* The largest number of keys of the map passed to getPrefix, and the
\* number of iterations after which the model stops following the loop.
MaxKeys == 3
MaxTries == 6

strA == <<"a">>

\* Keys of the map: the prefix chosen for the namespaces below, the
\* candidates the loop forms from it, and a namespace.
PrefixKeys ==
    {strA, nsT} \cup {strA \o <<"_">> \o Itoa(n) : n \in 1..(MaxKeys + 1)}

\* Maps with some of these keys; a key may be stored with the empty string.
PrefixMaps ==
    UNION {[keys -> {<<>>, strX}] :
              keys \in {ks \in SUBSET PrefixKeys : Cardinality(ks) <= MaxKeys}}

InitPrefix ==
    /\ nm = NoName /\ vp = "unset" /\ vq = "unset"
    /\ doc = <<>>
    /\ IdleRead
    /\ IdleWrite
    /\ IdleOther
    /\ elem = <<>> /\ eltType = -1 /\ eltValue = NotCalled
    /\ \E m \in PrefixMaps, ns \in {strA, nsT, <<>>} :
          gp = [nsToPrefix |-> m, ns |-> ns, prefix |-> <<>>, idx |-> 0, at |-> "pick"]
    /\ pc = "getPrefix"

\* prefix := ...; if nsToPrefix[prefix] != "" { idx := len(nsToPrefix) + 1
pickPrefix(g) ==
    LET trimmed == TrimRight(g.ns, {"/", "#"})
        i       == LastIndex(trimmed, "/")
        last    == IF i > 0 THEN SubSeq(trimmed, i + 1, Len(trimmed)) ELSE trimmed
        named   == IF last = <<>> \/ ~IsName(last) \/ Contains(last, ":")
                   THEN <<"_">> ELSE last
        prefix  == IF Len(named) >= 3 /\ ToLower(SubSeq(named, 1, 3)) = <<"x","m","l">>
                   THEN <<"_">> \o named ELSE named
    IN  IF Lookup(g.nsToPrefix, prefix) # <<>>
        THEN [g EXCEPT !.prefix = prefix,
                       !.idx = Cardinality(DOMAIN g.nsToPrefix) + 1,
                       !.at = "loop"]
        ELSE [g EXCEPT !.prefix = prefix, !.at = "return"]

\* One iteration of the loop in which the prefix itself is looked up.
tryCandidate_testsPrefix(g) ==
    IF Lookup(g.nsToPrefix, g.prefix) = <<>>
    THEN [g EXCEPT !.prefix = g.prefix \o <<"_">> \o Itoa(g.idx), !.at = "return"]
    ELSE [g EXCEPT !.idx = @ - 1]

\* if id := prefix + "_" + strconv.Itoa(idx); nsToPrefix[id] == "" {
\*     prefix = id; break }; idx--
tryCandidate(g) ==
    IF Lookup(g.nsToPrefix, g.prefix \o <<"_">> \o Itoa(g.idx)) = <<>>
    THEN [g EXCEPT !.prefix = g.prefix \o <<"_">> \o Itoa(g.idx), !.at = "return"]
    ELSE [g EXCEPT !.idx = @ - 1]

\* The statements of getPrefix before the loop.
GetPrefixPick ==
    /\ pc = "getPrefix"
    /\ gp.at = "pick"
    /\ gp' = pickPrefix(gp)
    /\ UNCHANGED <<nameVars, doc, readVars, writeVars, otherVars, pc, elem, eltType, eltValue>>

\* One iteration of the loop.
GetPrefixTry ==
    /\ pc = "getPrefix"
    /\ gp.at = "loop"
    /\ Cardinality(DOMAIN gp.nsToPrefix) + 1 - gp.idx < MaxTries
    /\ gp' = tryCandidate(gp)
    /\ UNCHANGED <<nameVars, doc, readVars, writeVars, otherVars, pc, elem, eltType, eltValue>>

\* return prefix
GetPrefixReturn ==
    /\ pc = "getPrefix"
    /\ gp.at = "return"
    /\ pc' = "done"
    /\ UNCHANGED <<nameVars, doc, readVars, writeVars, otherVars, unitVars>>

NextPrefix ==
    \/ GetPrefixPick
    \/ GetPrefixTry
    \/ GetPrefixReturn

SpecPrefix == InitPrefix /\ [][NextPrefix]_vars

\* A call that has begun executes its next statement.
LiveSpecPrefix == SpecPrefix /\ WF_vars(NextPrefix)

\* C30: getPrefix returns: the loop, counting idx down from
\* len(nsToPrefix)+1, comes to a candidate the map does not hold while idx
\* is still positive, and the prefix returned is that candidate.
C30_GetPrefixTerminates ==
    /\ <>(pc = "done")
    /\ [](gp.at = "loop" => gp.idx > 0)
    /\ [](pc = "done" =>
            /\ gp.prefix = getPrefix(gp.nsToPrefix, gp.ns)
            /\ Lookup(gp.nsToPrefix, gp.prefix) = <<>>)

\* getPrefix has returned after three iterations of the loop.
C30_Witness ==
    /\ pc = "done"
    /\ gp.idx = Cardinality(DOMAIN gp.nsToPrefix) - 1
    /\ Cardinality(DOMAIN gp.nsToPrefix) = 3

=============================================================================
